---- MODULE Spec2Model ----
(***************************************************************************)
(* Notification ingestion and e-mail dispatch service.                     *)
(*                                                                         *)
(* State machine of the POST /notifications pipeline (app.py               *)
(* accept_notification: store, then best-effort dispatch, then the merged  *)
(* response), of the notification store (NotificationService over the      *)
(* notifications table) and of GET /notifications (count + LIMIT/OFFSET    *)
(* list, read page by page by a client).                                   *)
(*                                                                         *)
(* Python values are modelled by strings; None is a string no request      *)
(* carries. A dict is a function whose DOMAIN is the set of its keys.      *)
(***************************************************************************)
EXTENDS Naturals, Sequences, FiniteSets, TLC

VARIABLES
    rows,       \* the notifications table: committed rows, in commit order
    clock,      \* last value datetime.now(timezone.utc) returned
    uuids,      \* number of uuid4() values generated so far
    nreq,       \* number of POST requests received so far
    pc,         \* per worker: position inside accept_notification
    req,        \* per worker: the NotificationRequest being handled
    loc,        \* per worker: local variables of the handler
    resp,       \* per worker: the HTTP response of the finished request
    outbox,     \* every MailServer.send_email invocation, in order
    stored,     \* the ids store_notification has returned
    deleted,    \* the ids delete_notification has removed
    pg,         \* GET /notifications: the request in progress and the
                \* pages its client has read so far
    http,       \* per worker: the HTTP request as it arrived, and what the
                \* introspection endpoint answers for its token
    db,         \* the Database object of a process: its connection pool
                \* and the operation in progress
    calc        \* a call of a pure function: its arguments and its result

vars ==
    <<rows, clock, uuids, nreq, pc, req, loc, resp, outbox, stored, deleted, pg,
      http, db, calc>>

----------------------------------------------------------------------------
(* Bounds of the model *)

MaxReqs == 2
MaxClock == 1
MaxStmts == 2
MaxTotal == 120
MaxTokens == 3

\* Server processes sharing the database. A handler is an `async def` that
\* never awaits, so one process runs its requests one at a time; requests of
\* different processes interleave at the database statements.
Procs == {"w1", "w2"}

----------------------------------------------------------------------------
(* Python values *)

None == "<None>"

\* Python truthiness of an Optional[str]
Truthy(v) == v # None /\ v # ""

\* a dict-typed variable holding None
NoneDict == [none |-> TRUE]

\* Python truthiness of an Optional[dict]
TruthyDict(d) == d # NoneDict /\ DOMAIN d # {}

\* dict.get(key) of a dict modelled as a function
Get(d, k) == IF k \in DOMAIN d THEN d[k] ELSE None

StartsWith(s, pre) == Len(s) >= Len(pre) /\ SubSeq(s, 1, Len(pre)) = pre

RECURSIVE Contains(_, _)
Contains(s, sub) ==
    IF Len(s) < Len(sub) THEN FALSE
    ELSE IF SubSeq(s, 1, Len(sub)) = sub THEN TRUE
    ELSE Contains(SubSeq(s, 2, Len(s)), sub)

Min(a, b) == IF a < b THEN a ELSE b

----------------------------------------------------------------------------
(* Requests *)

NotificationTypes == {"purchase_status", "shipping_status", "unknown_x"}

\* the payload of the end-to-end example: the field names of the status
\* e-mail shape with to_email / car_make / car_model
PayloadExample ==
    [to_email |-> "a@b.com", customer_name |-> "A", car_make |-> "Toyota",
     car_model |-> "Corolla", new_status |-> "LC Opened"]

\* the same event under the field names email / make / model
PayloadMakeModel ==
    [email |-> "a@b.com", customer_name |-> "A", make |-> "Toyota",
     model |-> "Corolla", new_status |-> "LC Opened"]

\* both payloads without new_status
PayloadExampleNoStatus ==
    [to_email |-> "a@b.com", customer_name |-> "A", car_make |-> "Toyota",
     car_model |-> "Corolla"]

PayloadMakeModelNoStatus ==
    [email |-> "a@b.com", customer_name |-> "A", make |-> "Toyota",
     model |-> "Corolla"]

Payloads ==
    {PayloadExample, PayloadMakeModel, PayloadExampleNoStatus,
     PayloadMakeModelNoStatus}

\* NotificationRequest.model_dump(): every field is a key of the dict
NotificationRequest(t, s, p, prio, ts, ref, meta) ==
    [notification_type |-> t, source |-> s, payload |-> p, priority |-> prio,
     timestamp |-> ts, reference_id |-> ref, metadata |-> meta]

\* requests of the dispatch pipeline: every type with every payload
PipelineRequests ==
    {NotificationRequest(t, "svc", p, "normal", None, None, NoneDict) :
        t \in NotificationTypes, p \in Payloads}

Sources == {"svc", "web"}
Priorities == {"normal", "high"}
StoreTypes == {"purchase_status", "unknown_x"}

\* requests of the store: each type, source and priority with each value
\* of the two other columns
StoreRequests ==
    {NotificationRequest(k[1], k[2], PayloadExample, k[3], None, None, NoneDict) :
        k \in {<<"purchase_status", "svc", "normal">>,
               <<"purchase_status", "web", "high">>,
               <<"unknown_x", "svc", "high">>,
               <<"unknown_x", "web", "normal">>}}

NoRequest ==
    NotificationRequest(None, None, PayloadExample, None, None, None, NoneDict)

----------------------------------------------------------------------------
(* Status e-mail shapes (pydantic models) *)

PurchasingFields ==
    {"email", "customer_name", "make", "model", "year", "chassis_id",
     "old_status", "new_status", "purchase_order_id", "lc_number",
     "supplier_name", "port_of_loading", "expected_shipping_date",
     "purchase_price", "currency", "notes", "contact_person"}

PurchasingRequired == {"make", "model", "new_status"}

ShippingFields ==
    {"to_email", "customer_name", "car_make", "car_model", "car_year",
     "chassis_number", "old_status", "new_status", "shipping_order_id",
     "vessel_name", "voyage_number", "container_number", "bill_of_lading",
     "port_of_loading", "port_of_discharge", "estimated_arrival_date",
     "actual_arrival_date", "delivery_date", "tracking_url", "notes",
     "contact_person"}

ShippingRequired ==
    {"to_email", "customer_name", "car_make", "car_model", "new_status"}

\* EmailStr accepts a string holding an @
IsEmail(v) == Contains(v, "@")

\* PurchasingErrors with a fault: new_status is not required
PurchasingErrorsStatusOptional(payload) ==
    {f \in {"make", "model"} : Get(payload, f) = None}
    \cup {f \in {"email"} : Get(payload, f) # None /\ ~IsEmail(Get(payload, f))}

\* the fields whose validation fails: a required field that is missing or
\* None, an e-mail field that is no address. Keys that are no field of the
\* shape are ignored (pydantic's default).
PurchasingErrors(payload) ==
    {f \in PurchasingRequired : Get(payload, f) = None}
    \cup {f \in {"email"} : Get(payload, f) # None /\ ~IsEmail(Get(payload, f))}

ShippingErrors(payload) ==
    {f \in ShippingRequired : Get(payload, f) = None}
    \cup {f \in {"to_email"} : Get(payload, f) # None /\ ~IsEmail(Get(payload, f))}

\* PurchasingStatusEmail(**payload), for a payload without errors
PurchasingStatusEmail(payload) == [f \in PurchasingFields |-> Get(payload, f)]

\* ShippingStatusEmail(**payload), for a payload without errors
ShippingStatusEmail(payload) == [f \in ShippingFields |-> Get(payload, f)]

----------------------------------------------------------------------------
(* Outcomes of a call: a returned dict or a raised exception *)

Return(d) == [kind |-> "return", value |-> d]

\* fastapi.HTTPException(status_code, detail)
HTTPException(code, detail) ==
    [kind |-> "raise", exc |-> "HTTPException", status_code |-> code,
     detail |-> detail, str |-> code \o ": " \o detail]

\* any other exception, with its str()
Exception(cls, msg) ==
    [kind |-> "raise", exc |-> cls, status_code |-> "", detail |-> msg,
     str |-> msg]

\* reading an attribute the pydantic object does not have
AttributeError(cls, attr) ==
    Exception("AttributeError",
              "'" \o cls \o "' object has no attribute '" \o attr \o "'")

\* except Exception as e: raise HTTPException(500, f"Error: {str(e)}")
WrapError(e) == HTTPException("500", "Error: " \o e.str)

----------------------------------------------------------------------------
(* E-mail handlers *)

\* one MailServer.send_email invocation and what it reported
Mail(to, subject, ok) == [to_email |-> to, subject |-> subject, ok |-> ok]

Handled(outcome, mails) == [outcome |-> outcome, mails |-> mails]

\* car_info = f"{make} {model}", plus f" ({year})" when year is truthy
CarInfo(make, model, year) ==
    IF Truthy(year) THEN make \o " " \o model \o " (" \o year \o ")"
    ELSE make \o " " \o model

\* EmailPurchaseHandler.send_purchase_status_update. tmpl: the template file
\* exists; smtp: what send_email reports.
send_purchase_status_update(purchase, tmpl, smtp) ==
    IF ~tmpl
    THEN Handled(WrapError(Exception("FileNotFoundError",
                     "No such file: purchasing_status_template.html")), <<>>)
    ELSE
      LET car_info == CarInfo(purchase.make, purchase.model, purchase.year)
          mail == Mail(purchase.email,
                       "Purchase Update: " \o purchase.new_status \o " - " \o car_info,
                       smtp)
      IN IF smtp
         THEN IF "to_email" \in DOMAIN purchase
              THEN Handled(Return(
                     [status |-> "success",
                      message |-> "Purchase status email sent to " \o purchase.to_email,
                      details |->
                        [car |-> car_info,
                         new_status |-> purchase.new_status,
                         purchase_order_id |-> purchase.purchase_order_id]]),
                     <<mail>>)
              ELSE Handled(WrapError(
                     AttributeError("PurchasingStatusEmail", "to_email")), <<mail>>)
         ELSE Handled(WrapError(HTTPException("500", "Failed to send email")),
                      <<mail>>)

\* ShippingEmailHandler.send_shipping_status_update
send_shipping_status_update(shipping, tmpl, smtp) ==
    IF ~tmpl
    THEN Handled(WrapError(Exception("FileNotFoundError",
                     "No such file: shipping_status_template.html")), <<>>)
    ELSE IF "make" \notin DOMAIN shipping
    THEN Handled(WrapError(AttributeError("ShippingStatusEmail", "make")), <<>>)
    ELSE
      LET car_info == CarInfo(shipping.make, shipping.model, shipping.year)
          mail == Mail(shipping.email,
                       "Shipping Update: " \o shipping.new_status \o " - " \o car_info,
                       smtp)
      IN IF smtp
         THEN Handled(Return(
                [status |-> "success",
                 message |-> "Shipping status email sent to " \o shipping.to_email,
                 details |->
                   [car |-> car_info,
                    new_status |-> shipping.new_status,
                    shipping_order_id |-> shipping.shipping_order_id,
                    tracking_url |-> shipping.tracking_url]]), <<mail>>)
         ELSE Handled(WrapError(HTTPException("500", "Failed to send email")),
                      <<mail>>)

----------------------------------------------------------------------------
(* Dispatch router: MailService.send_mail *)

\* the routing table: notification type -> handler and payload shape
KnownTypes == {"purchase_status", "shipping_status"}

UnsupportedType(t) ==
    HTTPException("400", "Unsupported notification type: " \o t
                         \o ". Supported types: purchase_status, shipping_status")

InvalidPayload(t) ==
    HTTPException("400", "Invalid payload for " \o t \o ": validation error")

\* send_mail(notification_type, payload)
send_mail(notification_type, payload, tmpl, smtp) ==
    IF notification_type \notin KnownTypes
    THEN Handled(UnsupportedType(notification_type), <<>>)
    ELSE IF notification_type = "purchase_status"
    THEN IF PurchasingErrors(payload) # {}
         THEN Handled(InvalidPayload(notification_type), <<>>)
         ELSE send_purchase_status_update(PurchasingStatusEmail(payload), tmpl, smtp)
    ELSE IF ShippingErrors(payload) # {}
         THEN Handled(InvalidPayload(notification_type), <<>>)
         ELSE send_shipping_status_update(ShippingStatusEmail(payload), tmpl, smtp)

----------------------------------------------------------------------------
(* accept_notification: the local steps *)

\* CatchDispatch with a fault: the detail of an HTTPException is not kept
CatchDispatchDropsDetail(outcome) ==
    IF outcome.kind = "return"
    THEN [email_result |-> outcome.value, email_error |-> None]
    ELSE IF outcome.exc = "HTTPException"
    THEN [email_result |-> NoneDict, email_error |-> None]
    ELSE [email_result |-> NoneDict, email_error |-> outcome.str]

\* the inner try of accept_notification: email_result and email_error after
\* the send_mail call
CatchDispatch(outcome) ==
    IF outcome.kind = "return"
    THEN [email_result |-> outcome.value, email_error |-> None]
    ELSE IF outcome.exc = "HTTPException"
    THEN [email_result |-> NoneDict, email_error |-> outcome.detail]
    ELSE [email_result |-> NoneDict, email_error |-> outcome.str]

\* ComposeResponse with a fault: the warning is added whenever there is no
\* result, and the result is added as well when there is one
ComposeResponseBoth(storage_result, email_result, email_error) ==
    [status_code |-> "200", status |-> "success",
     message |-> "Notification accepted and stored",
     details |-> [storage |-> storage_result, email |-> email_result,
                  email_warning |-> "Email not sent: " \o email_error]]

\* the response accept_notification builds and returns
ComposeResponse(storage_result, email_result, email_error) ==
    IF TruthyDict(email_result)
    THEN [status_code |-> "200", status |-> "success",
          message |-> "Notification accepted, stored, and email sent",
          details |-> [storage |-> storage_result, email |-> email_result]]
    ELSE IF Truthy(email_error)
    THEN [status_code |-> "200", status |-> "success",
          message |-> "Notification accepted and stored",
          details |-> [storage |-> storage_result,
                       email_warning |-> "Email not sent: " \o email_error]]
    ELSE [status_code |-> "200", status |-> "success",
          message |-> "Notification accepted and stored",
          details |-> [storage |-> storage_result]]

\* the error response of a request whose handler raised HTTPException(code, detail)
ErrorResponse(code, detail) == [status_code |-> code, detail |-> detail]

NoResponse == [status_code |-> None]

----------------------------------------------------------------------------
(* The request boundary: AuthService.verify_token *)

\* str.split(): the words of s, separated by runs of blanks
RECURSIVE SplitAcc(_, _, _)
SplitAcc(s, word, parts) ==
    IF s = ""
    THEN IF word = "" THEN parts ELSE Append(parts, word)
    ELSE IF SubSeq(s, 1, 1) = " "
    THEN SplitAcc(SubSeq(s, 2, Len(s)), "",
                  IF word = "" THEN parts ELSE Append(parts, word))
    ELSE SplitAcc(SubSeq(s, 2, Len(s)), word \o SubSeq(s, 1, 1), parts)

split(s) == SplitAcc(s, "", <<>>)

UpperCase == "ABCDEFGHIJKLMNOPQRSTUVWXYZ"
LowerCase == "abcdefghijklmnopqrstuvwxyz"

\* str.lower()
RECURSIVE lower(_)
lower(s) ==
    IF s = "" THEN ""
    ELSE LET c == SubSeq(s, 1, 1)
             up == {i \in 1..Len(UpperCase) : SubSeq(UpperCase, i, i) = c}
         IN (IF up = {} THEN c
             ELSE LET i == CHOOSE i \in up : TRUE IN SubSeq(LowerCase, i, i))
            \o lower(SubSeq(s, 2, Len(s)))

\* the GET to the introspection endpoint raises httpx.RequestError
ConnectError ==
    [kind |-> "RequestError", status_code |-> "", json |-> FALSE,
     active |-> "absent"]

\* the introspection endpoint answers. json: the body is a JSON object;
\* active: the repr of its "active" member, or "absent".
Answer(code, json, active) ==
    [kind |-> "response", status_code |-> code, json |-> json,
     active |-> active]

\* Python truthiness of introspect_data.get("active", False)
ActiveTruthy(active) == active \notin {"absent", "False", "None", "0", "''"}

\* AuthService.verify_token(authorization), given what the introspection
\* endpoint does when asked. print(response.json()) runs before the status
\* is looked at: a body that is no JSON raises there, and the last except
\* clause turns that into a 500.
verify_token(authorization, introspection) ==
    IF ~Truthy(authorization)
    THEN HTTPException("401", "Authorization header is missing")
    ELSE IF Len(split(authorization)) # 2
            \/ lower(split(authorization)[1]) # "bearer"
    THEN HTTPException("401",
             "Invalid authorization header format. Expected: Bearer <token>")
    ELSE IF introspection.kind = "RequestError"
    THEN HTTPException("503",
             "Failed to connect to introspection service: connect error")
    ELSE IF ~introspection.json
    THEN HTTPException("500", "Token verification failed: Expecting value")
    ELSE IF introspection.status_code # "200"
    THEN HTTPException("401", "Token introspection failed: body")
    ELSE IF ~ActiveTruthy(introspection.active)
    THEN HTTPException("401", "Token is not active or has expired")
    ELSE Return([active |-> introspection.active])

----------------------------------------------------------------------------
(* The request boundary: validation of the body as a NotificationRequest *)

\* NotificationRequestErrors with a fault: no upper limit on the lengths
NotificationRequestErrorsNoMax(body) ==
    {f \in {"notification_type", "source"} :
        \/ f \notin DOMAIN body
        \/ body[f] = None
        \/ Len(body[f]) < 1}
    \cup {f \in {"payload"} : f \notin DOMAIN body \/ body[f] = NoneDict}
    \cup {f \in {"priority"} :
             /\ f \in DOMAIN body
             /\ body[f] # None
             /\ body[f] \notin {"normal", "high", "urgent"}}

\* the fields of a JSON body that fail the validation of NotificationRequest.
\* A key that is absent is a missing field; None is JSON null, which the
\* Optional fields accept.
NotificationRequestErrors(body) ==
    {f \in {"notification_type", "source"} :
        \/ f \notin DOMAIN body
        \/ body[f] = None
        \/ Len(body[f]) < 1
        \/ Len(body[f]) > 100}
    \cup {f \in {"payload"} : f \notin DOMAIN body \/ body[f] = NoneDict}
    \cup {f \in {"priority"} :
             /\ f \in DOMAIN body
             /\ body[f] # None
             /\ body[f] \notin {"normal", "high", "urgent"}}
    \cup {f \in {"reference_id"} :
             /\ f \in DOMAIN body
             /\ body[f] # None
             /\ Len(body[f]) > 200}

\* the NotificationRequest of a body without errors: absent fields take
\* their defaults
ParseNotificationRequest(body) ==
    NotificationRequest(
        body.notification_type, body.source, body.payload,
        IF "priority" \in DOMAIN body THEN body.priority ELSE "normal",
        Get(body, "timestamp"), Get(body, "reference_id"),
        IF "metadata" \in DOMAIN body THEN body.metadata ELSE NoneDict)

----------------------------------------------------------------------------
(* HTTP requests to POST /notifications *)

\* c * n: the string c repeated n times
RECURSIVE Repeat(_, _)
Repeat(c, n) ==
    IF n = 0 THEN ""
    ELSE LET half == Repeat(c, n \div 2)
         IN IF n % 2 = 0 THEN half \o half ELSE half \o half \o c

\* a JSON body without the member k, and with the member k set to v
Without(body, k) == [f \in DOMAIN body \ {k} |-> body[f]]
With(body, k, v) == [f \in DOMAIN body \cup {k} |-> IF f = k THEN v ELSE body[f]]

\* a body with the required members only
GoodBody ==
    [notification_type |-> "purchase_status", source |-> "svc",
     payload |-> PayloadMakeModel]

\* GoodBody, and GoodBody with one member removed or set to a value at or
\* beyond a limit of NotificationRequest
BoundaryBodies ==
    {GoodBody}
    \cup {Without(GoodBody, k) : k \in {"notification_type", "source", "payload"}}
    \cup {With(GoodBody, k, v) :
             k \in {"notification_type", "source"},
             v \in {"", Repeat("x", 100), Repeat("x", 101)}}
    \cup {With(GoodBody, "priority", v) :
             v \in {None, "", "normal", "high", "urgent", "low"}}
    \cup {With(GoodBody, "reference_id", v) :
             v \in {Repeat("r", 200), Repeat("r", 201)}}

AuthHeaders ==
    {None, "", "Bearer tok", "bearer tok", "Basic tok", "Bearer", "Bearer a b"}

Introspections ==
    {ConnectError}
    \cup {Answer(c, TRUE, a) :
             c \in {"200", "401"}, a \in {"True", "False", "absent", "'yes'"}}
    \cup {Answer(c, FALSE, "absent") : c \in {"200", "401"}}

HttpRequest(authorization, introspection, body) ==
    [authorization |-> authorization, introspection |-> introspection,
     body |-> body]

\* every body with a valid token, and every header and every behaviour of
\* the introspection endpoint with a valid and with an invalid body
HttpRequests ==
    {HttpRequest("Bearer tok", Answer("200", TRUE, "True"), b) :
        b \in BoundaryBodies}
    \cup {HttpRequest(h, i, b) :
             h \in AuthHeaders, i \in Introspections,
             b \in {GoodBody, Without(GoodBody, "payload")}}

----------------------------------------------------------------------------
(* store_notification: the local steps *)

\* Uuid with a fault: the value is generated once and used for every call
UuidOnce(n) == "id1"

\* str(uuid.uuid4()): the n-th generated value, never generated before
Uuid(n) == "id" \o ToString(n)

\* the row store_notification inserts
NotificationRow(id, data, timestamp, stored_at) ==
    [notification_id |-> id,
     notification_type |-> data.notification_type,
     source |-> data.source,
     payload |-> data.payload,
     priority |-> data.priority,
     timestamp |-> timestamp,
     reference_id |-> data.reference_id,
     metadata |-> IF TruthyDict(data.metadata) THEN data.metadata ELSE NoneDict,
     stored_at |-> stored_at]

\* the dict store_notification returns
StorageResult(row) ==
    [notification_id |-> row.notification_id,
     notification_type |-> row.notification_type,
     source |-> row.source,
     stored_at |-> row.stored_at]

NoLocals ==
    [rid |-> 0, notification_id |-> None, timestamp |-> None, stored_at |-> 0,
     storage_result |-> NoneDict, email_result |-> NoneDict,
     email_error |-> None, dispatched |-> FALSE, tmpl |-> FALSE,
     smtp |-> FALSE, token_data |-> NoneDict]

----------------------------------------------------------------------------
(* The notifications table and its queries *)

RowIds(rs) == {rs[i].notification_id : i \in 1..Len(rs)}

\* a filter value the WHERE clause uses: `if notification_type:` and so on
NoFilters == [notification_type |-> None, source |-> None, priority |-> None]

\* ListWhere with a fault: without any filter the clause selects no row
ListWhereNeedsFilter(r, f) ==
    /\ Truthy(f.notification_type) \/ Truthy(f.source) \/ Truthy(f.priority)
    /\ Truthy(f.notification_type) => r.notification_type = f.notification_type
    /\ Truthy(f.source) => r.source = f.source
    /\ Truthy(f.priority) => r.priority = f.priority

\* WHERE clause of get_notifications
ListWhere(r, f) ==
    /\ Truthy(f.notification_type) => r.notification_type = f.notification_type
    /\ Truthy(f.source) => r.source = f.source
    /\ Truthy(f.priority) => r.priority = f.priority

\* CountWhere with a fault: the clauses are joined by OR
CountWhereAny(r, f) ==
    \/ ~(Truthy(f.notification_type) \/ Truthy(f.source) \/ Truthy(f.priority))
    \/ Truthy(f.notification_type) /\ r.notification_type = f.notification_type
    \/ Truthy(f.source) /\ r.source = f.source
    \/ Truthy(f.priority) /\ r.priority = f.priority

\* WHERE clause of get_notification_count
CountWhere(r, f) ==
    /\ Truthy(f.notification_type) => r.notification_type = f.notification_type
    /\ Truthy(f.source) => r.source = f.source
    /\ Truthy(f.priority) => r.priority = f.priority

\* all orders of the elements of a sequence
Perms(n) == {f \in [1..n -> 1..n] : \A i, j \in 1..n : i # j => f[i] # f[j]}

\* ORDER BY stored_at DESC: every order of the selected rows in which
\* stored_at never increases. Rows of equal stored_at come in any order.
OrderByStoredAtDesc(sel) ==
    {[i \in 1..Len(sel) |-> sel[f[i]]] : f \in
        {g \in Perms(Len(sel)) :
            \A i, j \in 1..Len(sel) :
                i < j => sel[g[i]].stored_at >= sel[g[j]].stored_at}}

\* LIMIT limit OFFSET offset
LimitOffset(seq, limit, offset) ==
    SubSeq(seq, offset + 1, Min(Len(seq), offset + limit))

\* get_notifications: the results the query can return
get_notifications(rs, f, limit, offset) ==
    {LimitOffset(o, limit, offset) :
        o \in OrderByStoredAtDesc(SelectSeq(rs, LAMBDA r : ListWhere(r, f)))}

\* get_notification_count: SELECT COUNT(*)
get_notification_count(rs, f) == Len(SelectSeq(rs, LAMBDA r : CountWhere(r, f)))

\* get_notification_by_id(id): results[0] if results else None
get_notification_by_id(rs, id) ==
    LET results == SelectSeq(rs, LAMBDA r : r.notification_id = id)
    IN  IF results # <<>> THEN results[1] ELSE NoneDict

\* DELETE FROM notifications WHERE notification_id = id
DeleteRow(rs, id) == SelectSeq(rs, LAMBDA r : r.notification_id # id)

----------------------------------------------------------------------------
(* Database: the connection pool and the operations on it *)

\* max_conn of the pool the service creates
MaxConn == 3

\* an operation of Database from its call to its return.
\* commit: the operation commits after its statements; queries: the
\* statements, each the sequence of rows it inserts (none for a SELECT);
\* i: the next statement; pending: the rows written in the open
\* transaction of the connection; connection: the local variable holds a
\* connection of the pool; got, put: the getconn and putconn calls that
\* returned; outcome: "return" or "raise" once decided.
Op(fn, commit, queries) ==
    [fn |-> fn, pc |-> "getconn", commit |-> commit, queries |-> queries,
     i |-> 1, pending |-> <<>>, connection |-> FALSE, got |-> 0, put |-> 0,
     outcome |-> "none"]

\* no operation in progress
NoOp == [Op("none", FALSE, <<>>) EXCEPT !.pc = "idle"]

\* Database.__init__: the pool is created, no connection is checked out
DbInit == [used |-> 0, op |-> NoOp]

\* execute_query(query): get_cursor(), one SELECT
execute_query == Op("execute_query", FALSE, << <<>> >>)

\* execute_update(query, params): get_cursor(commit=True), one statement
execute_update(written) == Op("execute_update", TRUE, <<written>>)

\* execute_many(query, params_list): get_cursor(commit=True), one
\* executemany call that writes a row per parameter tuple
execute_many(written) == Op("execute_many", TRUE, <<written>>)

\* execute_raw(query, params, fetch): get_cursor(commit=not fetch)
execute_raw(written, fetch) ==
    Op("execute_raw", ~fetch, IF fetch THEN << <<>> >> ELSE <<written>>)

\* execute_transaction(queries): get_connection(), every statement, one commit
execute_transaction(queries) == Op("execute_transaction", TRUE, queries)

\* the rows the statements of an operation write
RECURSIVE Written(_)
Written(queries) ==
    IF queries = <<>> THEN <<>> ELSE Head(queries) \o Written(Tail(queries))

----------------------------------------------------------------------------
(* GET /notifications: the pagination of the response *)

\* the largest page_size the endpoint accepts
MaxPageSize == 100

\* total_pages with a fault: integer division
total_pagesFloor(total_count, page_size) ==
    IF total_count > 0 THEN total_count \div page_size ELSE 0

\* math.ceil(total_count / page_size) if total_count > 0 else 0. The
\* quotient is a float; it is exact enough for the ceiling as long as
\* total_count is below 2^53.
total_pages(total_count, page_size) ==
    IF total_count > 0
    THEN IF total_count % page_size = 0
         THEN total_count \div page_size
         ELSE total_count \div page_size + 1
    ELSE 0

\* PaginationMeta(total, page, page_size, total_pages)
PaginationMeta(total_count, page, page_size) ==
    [total |-> total_count, page |-> page, page_size |-> page_size,
     total_pages |-> total_pages(total_count, page_size)]

----------------------------------------------------------------------------
(* TemplateRenderer *)

\* Python values bound to a placeholder: the type and str(value)
PyNone == [type |-> "NoneType", str |-> "None"]
PyStr(s) == [type |-> "str", str |-> s]
PyInt(n) == [type |-> "int", str |-> ToString(n)]
PyBool(b) == [type |-> "bool", str |-> IF b THEN "True" ELSE "False"]

\* Python truthiness of a value
PyTruthy(v) ==
    ~ \/ v.type = "NoneType"
      \/ v.type = "str" /\ v.str = ""
      \/ v.type = "int" /\ v.str = "0"
      \/ v.type = "bool" /\ v.str = "False"

\* one keyword argument of render_template
Binding(key, value) == [key |-> key, value |-> value]

\* str.replace(old, new): every occurrence of old, found from left to
\* right without overlap, is replaced by new
RECURSIVE replace(_, _, _)
replace(s, old, new) ==
    IF Len(s) < Len(old) THEN s
    ELSE IF SubSeq(s, 1, Len(old)) = old
    THEN new \o replace(SubSeq(s, Len(old) + 1, Len(s)), old, new)
    ELSE SubSeq(s, 1, 1) \o replace(SubSeq(s, 2, Len(s)), old, new)

\* render_template(template_content, **kwargs): one replace per keyword
\* argument, in the order of the arguments, each on the result of the
\* one before
RECURSIVE render_template(_, _)
render_template(template_content, kwargs) ==
    IF kwargs = <<>> THEN template_content
    ELSE render_template(
             replace(template_content,
                     "{{" \o Head(kwargs).key \o "}}",
                     IF PyTruthy(Head(kwargs).value)
                     THEN Head(kwargs).value.str ELSE ""),
             Tail(kwargs))

\* build_section with a fault: only None suppresses the section
build_sectionNotNone(condition, content) ==
    IF condition.type # "NoneType" THEN content ELSE ""

\* build_section(condition, content): content if condition else ""
build_section(condition, content) ==
    IF PyTruthy(condition) THEN content ELSE ""

----------------------------------------------------------------------------
(* The body of a status e-mail: what the handlers bind to the template *)

\* an Optional[str] field as a Python value
Py(v) == IF v = None THEN PyNone ELSE PyStr(v)

\* a field inside an f-string
Fmt(v) == IF v = None THEN "None" ELSE v

\* the pushpin character U+1F4CC of the notes section, which a TLA+ string
\* cannot hold
Pin == "[U+1F4CC]"

InfoItem(label, text) ==
    "<div class=\"info-item\"><strong>" \o label \o ":</strong> " \o text
    \o "</div>"

Highlight(text) ==
    "<div class=\"highlight\"><p class=\"info-label\">" \o Pin
    \o " Important Notes</p><p>" \o text \o "</p></div>"

TrackingButton(url) ==
    "<div style=\"text-align: center;\"><a href=\"" \o url
    \o "\" class=\"tracking-button\">" \o "[U+1F4CD]"
    \o " Track Your Shipment</a></div>"

\* status_message of the purchase handler
purchase_status_message(purchase) ==
    IF Truthy(purchase.old_status)
    THEN "Great news! Your vehicle purchase status has been updated from <strong>"
         \o purchase.old_status \o "</strong> to <strong>"
         \o purchase.new_status \o "</strong>."
    ELSE "Your vehicle purchase status is now: <strong>"
         \o purchase.new_status \o "</strong>"

\* one build_section call of a handler: the field is the condition, the
\* fragment holds its text
FieldSection(key, v, fragment) ==
    Binding(key, PyStr(build_section(Py(v), fragment)))

\* price_section with a fault: the currency decides as well
price_sectionNeedsCurrency(purchase) ==
    Binding("price_section",
            PyStr(IF Truthy(purchase.currency)
                  THEN build_section(Py(purchase.purchase_price),
                           InfoItem("Purchase Price",
                                    purchase.currency \o " "
                                    \o Fmt(purchase.purchase_price)))
                  ELSE ""))

\* price_section of the purchase handler
price_section(purchase) ==
    FieldSection("price_section", purchase.purchase_price,
                 InfoItem("Purchase Price",
                          (IF Truthy(purchase.currency) THEN purchase.currency ELSE "")
                          \o " " \o Fmt(purchase.purchase_price)))

\* the keyword arguments EmailPurchaseHandler passes to render_template
PurchaseRenderArgs(purchase) ==
    << Binding("customer_name", Py(purchase.customer_name)),
       Binding("status_message", PyStr(purchase_status_message(purchase))),
       Binding("new_status", PyStr(purchase.new_status)),
       Binding("car_info",
               PyStr(CarInfo(purchase.make, purchase.model, purchase.year))),
       FieldSection("chassis_number_section", purchase.chassis_id,
                    InfoItem("Chassis Number", Fmt(purchase.chassis_id))),
       FieldSection("purchase_order_section", purchase.purchase_order_id,
                    InfoItem("Purchase Order", Fmt(purchase.purchase_order_id))),
       FieldSection("lc_number_section", purchase.lc_number,
                    InfoItem("LC Number", Fmt(purchase.lc_number))),
       FieldSection("supplier_section", purchase.supplier_name,
                    InfoItem("Supplier", Fmt(purchase.supplier_name))),
       price_section(purchase),
       FieldSection("port_loading_section", purchase.port_of_loading,
                    InfoItem("Port of Loading", Fmt(purchase.port_of_loading))),
       FieldSection("shipping_date_section", purchase.expected_shipping_date,
                    InfoItem("Expected Shipping Date",
                             Fmt(purchase.expected_shipping_date))),
       FieldSection("notes_section", purchase.notes,
                    Highlight(Fmt(purchase.notes))),
       FieldSection("contact_section", purchase.contact_person,
                    InfoItem("Contact Person", Fmt(purchase.contact_person))) >>

\* status_message of MailService.send_shipping_status_update
shipping_status_message(shipping) ==
    IF Truthy(shipping.old_status)
    THEN "Your vehicle shipping status has been updated from <strong>"
         \o shipping.old_status \o "</strong> to <strong>"
         \o shipping.new_status \o "</strong>."
    ELSE "Your vehicle shipping status is now: <strong>"
         \o shipping.new_status \o "</strong>"

\* the keyword arguments MailService.send_shipping_status_update passes to
\* render_template
ShippingRenderArgs(shipping) ==
    << Binding("customer_name", Py(shipping.customer_name)),
       Binding("status_message", PyStr(shipping_status_message(shipping))),
       Binding("new_status", PyStr(shipping.new_status)),
       Binding("car_info",
               PyStr(CarInfo(shipping.car_make, shipping.car_model,
                             shipping.car_year))),
       FieldSection("chassis_number_section", shipping.chassis_number,
                    InfoItem("Chassis Number", Fmt(shipping.chassis_number))),
       FieldSection("shipping_order_section", shipping.shipping_order_id,
                    InfoItem("Shipping Order ID", Fmt(shipping.shipping_order_id))),
       FieldSection("vessel_section", shipping.vessel_name,
                    InfoItem("Vessel Name", Fmt(shipping.vessel_name))),
       FieldSection("voyage_section", shipping.voyage_number,
                    InfoItem("Voyage Number", Fmt(shipping.voyage_number))),
       FieldSection("container_section", shipping.container_number,
                    InfoItem("Container Number", Fmt(shipping.container_number))),
       FieldSection("bl_section", shipping.bill_of_lading,
                    InfoItem("Bill of Lading", Fmt(shipping.bill_of_lading))),
       FieldSection("port_loading_section", shipping.port_of_loading,
                    InfoItem("Port of Loading", Fmt(shipping.port_of_loading))),
       FieldSection("port_discharge_section", shipping.port_of_discharge,
                    InfoItem("Port of Discharge", Fmt(shipping.port_of_discharge))),
       FieldSection("eta_section", shipping.estimated_arrival_date,
                    InfoItem("Estimated Arrival",
                             Fmt(shipping.estimated_arrival_date))),
       FieldSection("ata_section", shipping.actual_arrival_date,
                    InfoItem("Actual Arrival", Fmt(shipping.actual_arrival_date))),
       FieldSection("delivery_date_section", shipping.delivery_date,
                    InfoItem("Delivery Date", Fmt(shipping.delivery_date))),
       FieldSection("tracking_section", shipping.tracking_url,
                    TrackingButton(Fmt(shipping.tracking_url))),
       FieldSection("notes_section", shipping.notes,
                    Highlight(Fmt(shipping.notes))),
       FieldSection("contact_section", shipping.contact_person,
                    InfoItem("Contact Person", Fmt(shipping.contact_person))) >>

\* the keyword arguments of the handler of a notification type
RenderArgs(t, obj) ==
    IF t = "purchase_status" THEN PurchaseRenderArgs(obj)
    ELSE ShippingRenderArgs(obj)

----------------------------------------------------------------------------
(* Initial state: empty table, no request in progress *)

PgIdle ==
    [pc |-> "idle", filters |-> NoFilters, page_size |-> 1, page |-> 1,
     total |-> 0, pages |-> <<>>, before |-> {}, inserted |-> FALSE,
     removed |-> FALSE]

\* no HTTP request: no header, no answer of the introspection endpoint, no body
NoHttp ==
    [authorization |-> None,
     introspection |-> [kind |-> "none", status_code |-> "", json |-> FALSE,
                        active |-> "absent"],
     body |-> NoneDict]

\* no call of a pure function
NoCalc == [fn |-> "none"]

\* the state of the service after construction
InitService ==
    /\ rows = <<>>
    /\ clock = 0
    /\ uuids = 0
    /\ nreq = 0
    /\ pc = [p \in Procs |-> "idle"]
    /\ req = [p \in Procs |-> NoRequest]
    /\ loc = [p \in Procs |-> NoLocals]
    /\ resp = [p \in Procs |-> NoResponse]
    /\ outbox = <<>>
    /\ stored = {}
    /\ deleted = {}
    /\ pg = PgIdle
    /\ http = [p \in Procs |-> NoHttp]
    /\ db = DbInit

Init == InitService /\ calc = NoCalc

----------------------------------------------------------------------------
(* POST /notifications *)

\* datetime.now(timezone.utc).isoformat() of the event time
Iso(t) == "T" \o ToString(t)

\* a request arrives and passes the boundary; accept_notification starts
Receive(p, R) ==
    /\ pc[p] = "idle"
    /\ nreq < MaxReqs
    /\ \E r \in R :
        /\ req' = [req EXCEPT ![p] = r]
        /\ loc' = [loc EXCEPT ![p] = [NoLocals EXCEPT !.rid = nreq + 1]]
    /\ nreq' = nreq + 1
    /\ pc' = [pc EXCEPT ![p] = "prepare"]
    /\ UNCHANGED <<rows, clock, uuids, resp, outbox, stored, deleted, pg, http, db, calc>>

\* StorePrepare with a fault: the timestamp is always the server's time
StorePrepareServerTime(p, Adv) ==
    /\ pc[p] = "prepare"
    /\ \E d1, d2 \in Adv :
        /\ clock + d1 + d2 <= MaxClock
        /\ clock' = clock + d1 + d2
        /\ loc' = [loc EXCEPT ![p].notification_id = Uuid(uuids + 1),
                              ![p].timestamp = Iso(clock + d1),
                              ![p].stored_at = clock + d1 + d2]
    /\ uuids' = uuids + 1
    /\ pc' = [pc EXCEPT ![p] = "insert"]
    /\ UNCHANGED <<rows, nreq, req, resp, outbox, stored, deleted, pg, http, db, calc>>

\* store_notification up to the INSERT: the id, the timestamp and stored_at.
\* The clock is read twice; before each read it may have advanced by one of
\* the steps in Adv.
StorePrepare(p, Adv) ==
    /\ pc[p] = "prepare"
    /\ \E d1, d2 \in Adv :
        /\ clock + d1 + d2 <= MaxClock
        /\ clock' = clock + d1 + d2
        /\ loc' = [loc EXCEPT ![p].notification_id = Uuid(uuids + 1),
                              ![p].timestamp =
                                  IF Truthy(req[p].timestamp)
                                  THEN req[p].timestamp
                                  ELSE Iso(clock + d1),
                              ![p].stored_at = clock + d1 + d2]
    /\ uuids' = uuids + 1
    /\ pc' = [pc EXCEPT ![p] = "insert"]
    /\ UNCHANGED <<rows, nreq, req, resp, outbox, stored, deleted, pg, http, db, calc>>

\* StoreInsert with a fault: a failed insert is swallowed and the caller
\* continues as after a successful one
StoreInsertSwallows(p, after) ==
    /\ pc[p] = "insert"
    /\ \E ok \in BOOLEAN :
        LET row == NotificationRow(loc[p].notification_id, req[p],
                                   loc[p].timestamp, loc[p].stored_at)
        IN IF ok
           THEN /\ rows' = Append(rows, row)
                /\ stored' = stored \cup {row.notification_id}
                /\ loc' = [loc EXCEPT ![p].storage_result = StorageResult(row)]
                /\ pg' = [pg EXCEPT !.inserted = (pg.pc # "idle")]
                /\ pc' = [pc EXCEPT ![p] = after]
                /\ resp' = resp
           ELSE /\ pc' = [pc EXCEPT ![p] = after]
                /\ UNCHANGED <<rows, stored, loc, pg, resp>>
    /\ UNCHANGED <<clock, uuids, nreq, req, outbox, deleted, http, db, calc>>

\* execute_update(INSERT ...): the row is committed and store_notification
\* returns, or the statement fails, is rolled back, and store_notification
\* raises HTTPException(500). after: where the caller continues.
StoreInsert(p, after) ==
    /\ pc[p] = "insert"
    /\ \E ok \in BOOLEAN :
        LET row == NotificationRow(loc[p].notification_id, req[p],
                                   loc[p].timestamp, loc[p].stored_at)
        IN IF ok
           THEN /\ rows' = Append(rows, row)
                /\ stored' = stored \cup {row.notification_id}
                /\ loc' = [loc EXCEPT ![p].storage_result = StorageResult(row)]
                /\ pg' = [pg EXCEPT !.inserted = (pg.pc # "idle")]
                /\ pc' = [pc EXCEPT ![p] = after]
                /\ resp' = resp
           ELSE /\ resp' = [resp EXCEPT ![p] =
                      ErrorResponse("500", "Error storing notification: database error")]
                /\ pc' = [pc EXCEPT ![p] = "done"]
                /\ UNCHANGED <<rows, stored, loc, pg>>
    /\ UNCHANGED <<clock, uuids, nreq, req, outbox, deleted, http, db, calc>>

\* Dispatch with a fault: the exception send_mail raised leaves the inner try
\* and ends the request with an error response
DispatchPropagates(p) ==
    /\ pc[p] = "dispatch"
    /\ \E tmpl, smtp \in BOOLEAN :
        LET h == send_mail(req[p].notification_type, req[p].payload, tmpl, smtp)
            c == CatchDispatch(h.outcome)
        IN /\ loc' = [loc EXCEPT ![p].email_result = c.email_result,
                                 ![p].email_error = c.email_error,
                                 ![p].dispatched = TRUE,
                                 ![p].tmpl = tmpl,
                                 ![p].smtp = smtp]
           /\ outbox' = outbox \o
                  [i \in 1..Len(h.mails) |->
                      [rid |-> loc[p].rid, to_email |-> h.mails[i].to_email,
                       subject |-> h.mails[i].subject, ok |-> h.mails[i].ok]]
           /\ IF h.outcome.kind = "raise"
              THEN /\ resp' = [resp EXCEPT ![p] =
                          ErrorResponse(h.outcome.status_code, h.outcome.detail)]
                   /\ pc' = [pc EXCEPT ![p] = "done"]
              ELSE /\ resp' = resp
                   /\ pc' = [pc EXCEPT ![p] = "respond"]
    /\ UNCHANGED <<rows, clock, uuids, nreq, req, stored, deleted, pg, http, db, calc>>

\* Dispatch with a fault: a send that failed is attempted a second time
DispatchRetries(p) ==
    /\ pc[p] = "dispatch"
    /\ \E tmpl, smtp \in BOOLEAN :
        LET h == send_mail(req[p].notification_type, req[p].payload, tmpl, smtp)
            c == CatchDispatch(h.outcome)
            sent == [i \in 1..Len(h.mails) |->
                      [rid |-> loc[p].rid, to_email |-> h.mails[i].to_email,
                       subject |-> h.mails[i].subject, ok |-> h.mails[i].ok]]
        IN /\ loc' = [loc EXCEPT ![p].email_result = c.email_result,
                                 ![p].email_error = c.email_error,
                                 ![p].dispatched = TRUE,
                                 ![p].tmpl = tmpl,
                                 ![p].smtp = smtp]
           /\ outbox' = IF smtp THEN outbox \o sent ELSE outbox \o sent \o sent
    /\ pc' = [pc EXCEPT ![p] = "respond"]
    /\ UNCHANGED <<rows, clock, uuids, nreq, req, resp, stored, deleted, pg, http, db, calc>>

\* the send_mail call inside the inner try, with its except clauses.
\* tmpl: the template file exists; smtp: the mail server accepts the message.
Dispatch(p) ==
    /\ pc[p] = "dispatch"
    /\ \E tmpl, smtp \in BOOLEAN :
        LET h == send_mail(req[p].notification_type, req[p].payload, tmpl, smtp)
            c == CatchDispatch(h.outcome)
        IN /\ loc' = [loc EXCEPT ![p].email_result = c.email_result,
                                 ![p].email_error = c.email_error,
                                 ![p].dispatched = TRUE,
                                 ![p].tmpl = tmpl,
                                 ![p].smtp = smtp]
           /\ outbox' = outbox \o
                  [i \in 1..Len(h.mails) |->
                      [rid |-> loc[p].rid, to_email |-> h.mails[i].to_email,
                       subject |-> h.mails[i].subject, ok |-> h.mails[i].ok]]
    /\ pc' = [pc EXCEPT ![p] = "respond"]
    /\ UNCHANGED <<rows, clock, uuids, nreq, req, resp, stored, deleted, pg, http, db, calc>>

\* the response is built and returned
Respond(p) ==
    /\ pc[p] = "respond"
    /\ resp' = [resp EXCEPT ![p] =
           ComposeResponse(loc[p].storage_result, loc[p].email_result,
                           loc[p].email_error)]
    /\ pc' = [pc EXCEPT ![p] = "done"]
    /\ UNCHANGED <<rows, clock, uuids, nreq, req, loc, outbox, stored, deleted, pg, http, db, calc>>

\* the response has been sent; the worker takes the next request
Finish(p) ==
    /\ pc[p] = "done"
    /\ pc' = [pc EXCEPT ![p] = "idle"]
    /\ req' = [req EXCEPT ![p] = NoRequest]
    /\ loc' = [loc EXCEPT ![p] = NoLocals]
    /\ resp' = [resp EXCEPT ![p] = NoResponse]
    /\ http' = [http EXCEPT ![p] = NoHttp]
    /\ UNCHANGED <<rows, clock, uuids, nreq, outbox, stored, deleted, pg, db, calc>>

\* an HTTP request arrives at POST /notifications
Arrive(p, H) ==
    /\ pc[p] = "idle"
    /\ nreq < MaxReqs
    /\ \E h \in H : http' = [http EXCEPT ![p] = h]
    /\ loc' = [loc EXCEPT ![p] = [NoLocals EXCEPT !.rid = nreq + 1]]
    /\ nreq' = nreq + 1
    /\ pc' = [pc EXCEPT ![p] = "auth"]
    /\ UNCHANGED <<rows, clock, uuids, req, resp, outbox, stored, deleted, pg, db, calc>>

\* the dependency verify_token runs before the body is validated: it
\* returns the token data, or its HTTPException is the response
Authenticate(p) ==
    /\ pc[p] = "auth"
    /\ LET o == verify_token(http[p].authorization, http[p].introspection)
       IN IF o.kind = "raise"
          THEN /\ resp' = [resp EXCEPT ![p] = ErrorResponse(o.status_code, o.detail)]
               /\ pc' = [pc EXCEPT ![p] = "done"]
               /\ loc' = loc
          ELSE /\ loc' = [loc EXCEPT ![p].token_data = o.value]
               /\ pc' = [pc EXCEPT ![p] = "validate"]
               /\ resp' = resp
    /\ UNCHANGED <<rows, clock, uuids, nreq, req, outbox, stored, deleted, pg, http, db, calc>>

\* the body is validated as a NotificationRequest: a body with errors is
\* answered with 422 and accept_notification is not called
Validate(p) ==
    /\ pc[p] = "validate"
    /\ IF NotificationRequestErrors(http[p].body) # {}
       THEN /\ resp' = [resp EXCEPT ![p] = ErrorResponse("422", "validation error")]
            /\ pc' = [pc EXCEPT ![p] = "done"]
            /\ req' = req
       ELSE /\ req' = [req EXCEPT ![p] = ParseNotificationRequest(http[p].body)]
            /\ pc' = [pc EXCEPT ![p] = "prepare"]
            /\ resp' = resp
    /\ UNCHANGED <<rows, clock, uuids, nreq, loc, outbox, stored, deleted, pg, http, db, calc>>

\* one process serving POST /notifications
Next ==
    \/ Receive("w1", PipelineRequests)
    \/ StorePrepare("w1", 0..1)
    \/ StoreInsert("w1", "dispatch")
    \/ Dispatch("w1")
    \/ Respond("w1")
    \/ Finish("w1")

Spec == Init /\ [][Next]_vars

\* status events with every field the handlers' label, subject, recipient
\* and success payload are built from
PurchaseFull ==
    [email |-> "a@b.com", customer_name |-> "A", make |-> "Toyota",
     model |-> "Corolla", year |-> "2020", old_status |-> "Ordered",
     new_status |-> "LC Opened", purchase_order_id |-> "PO1"]

ShippingFull ==
    [to_email |-> "a@b.com", customer_name |-> "A", car_make |-> "Toyota",
     car_model |-> "Corolla", car_year |-> "2020", old_status |-> "Loaded",
     new_status |-> "In Transit", shipping_order_id |-> "SO1",
     tracking_url |-> "http://t/1"]

\* each event complete, and with each one of its fields left out
HandlerRequests ==
    {NotificationRequest("purchase_status", "svc", pl, "normal", None, None, NoneDict) :
        pl \in {PurchaseFull} \cup {Without(PurchaseFull, k) : k \in DOMAIN PurchaseFull}}
    \cup
    {NotificationRequest("shipping_status", "svc", pl, "normal", None, None, NoneDict) :
        pl \in {ShippingFull} \cup {Without(ShippingFull, k) : k \in DOMAIN ShippingFull}}

\* one process serving POST /notifications with status events
NextHandlers ==
    \/ Receive("w1", HandlerRequests)
    \/ StorePrepare("w1", {0})
    \/ StoreInsert("w1", "dispatch")
    \/ Dispatch("w1")
    \/ Respond("w1")
    \/ Finish("w1")

SpecHandlers == Init /\ [][NextHandlers]_vars

\* the empty mapping {}
EmptyDict == [k \in {} |-> ""]

\* a body of a type without a handler
PlainBody ==
    [notification_type |-> "unknown_x", source |-> "svc",
     payload |-> PayloadExample]

\* valid bodies: the required members only, and with each of priority,
\* metadata and reference_id given, null and empty values included
RoundTripBodies ==
    {PlainBody}
    \cup {With(PlainBody, "priority", v) : v \in {None, "high"}}
    \cup {With(PlainBody, "metadata", v) :
             v \in {NoneDict, EmptyDict, [trace |-> "t1"]}}
    \cup {With(PlainBody, "reference_id", v) : v \in {"r1"}}

RoundTripRequests ==
    {HttpRequest("Bearer tok", Answer("200", TRUE, "True"), b) :
        b \in RoundTripBodies}

\* a caller of the store reads one notification by its id
ReadById ==
    /\ \E id \in stored :
         calc' = [fn |-> "get_notification_by_id", id |-> id,
                  out |-> get_notification_by_id(rows, id)]
    /\ UNCHANGED <<rows, clock, uuids, nreq, pc, req, loc, resp, outbox, stored,
                   deleted, pg, http, db>>

\* a caller of the store reads the first page of all notifications
ReadList ==
    /\ \E res \in get_notifications(rows, NoFilters, MaxPageSize, 0) :
         calc' = [fn |-> "get_notifications", id |-> None, out |-> res]
    /\ UNCHANGED <<rows, clock, uuids, nreq, pc, req, loc, resp, outbox, stored,
                   deleted, pg, http, db>>

\* one process serving POST /notifications from the HTTP request on, and a
\* reader of the store
NextRoundTrip ==
    \/ Arrive("w1", RoundTripRequests)
    \/ Authenticate("w1")
    \/ Validate("w1")
    \/ StorePrepare("w1", {0})
    \/ StoreInsert("w1", "dispatch")
    \/ Dispatch("w1")
    \/ Respond("w1")
    \/ Finish("w1")
    \/ ReadById
    \/ ReadList

SpecRoundTrip == Init /\ [][NextRoundTrip]_vars

\* an event time a caller supplies that lies ahead of the server's clock
CallerTime == Iso(MaxClock + 5)

\* requests without a timestamp, with an empty one and with the caller's
TimestampRequests ==
    {NotificationRequest("unknown_x", "svc", PayloadExample, "normal", ts, None,
                         NoneDict) : ts \in {None, "", CallerTime}}

\* one process calling store_notification
NextTimestamps ==
    \/ Receive("w1", TimestampRequests)
    \/ StorePrepare("w1", 0..1)
    \/ StoreInsert("w1", "done")
    \/ Finish("w1")

SpecTimestamps == Init /\ [][NextTimestamps]_vars

----------------------------------------------------------------------------
(* The store called directly, and GET /notifications read page by page *)

\* requests that differ in the notification type
PagingRequests ==
    {NotificationRequest(t, "svc", PayloadExample, "normal", None, None, NoneDict) :
        t \in StoreTypes}

PageSizes == {1, 2}

\* delete_notification(id)
Delete(id) ==
    /\ id \in RowIds(rows)
    /\ rows' = DeleteRow(rows, id)
    /\ deleted' = deleted \cup {id}
    /\ pg' = [pg EXCEPT !.removed = (pg.pc # "idle")]
    /\ UNCHANGED <<clock, uuids, nreq, pc, req, loc, resp, outbox, stored, http, db, calc>>

\* a client starts reading the notifications from page 1
PageBegin(F, PS) ==
    /\ pg.pc = "idle"
    /\ \E f \in F, ps \in PS :
        pg' = [PgIdle EXCEPT !.pc = "count", !.filters = f, !.page_size = ps,
                             !.before = stored \ deleted]
    /\ UNCHANGED <<rows, clock, uuids, nreq, pc, req, loc, resp, outbox, stored, deleted, http, db, calc>>

\* the handler of GET /notifications: the count query
GetCount ==
    /\ pg.pc = "count"
    /\ pg' = [pg EXCEPT !.total = get_notification_count(rows, pg.filters),
                        !.pc = "list"]
    /\ UNCHANGED <<rows, clock, uuids, nreq, pc, req, loc, resp, outbox, stored, deleted, http, db, calc>>

\* the handler of GET /notifications: the list query with
\* offset = (page - 1) * page_size and limit = page_size, and the response.
\* The client asks for the next page after a full page and stops after a
\* short one.
GetList ==
    /\ pg.pc = "list"
    /\ \E res \in get_notifications(rows, pg.filters, pg.page_size,
                                    (pg.page - 1) * pg.page_size) :
        pg' = [pg EXCEPT !.pages = Append(pg.pages, res),
                         !.page = IF Len(res) = pg.page_size THEN pg.page + 1
                                  ELSE pg.page,
                         !.pc = IF Len(res) = pg.page_size THEN "count"
                                ELSE "done"]
    /\ UNCHANGED <<rows, clock, uuids, nreq, pc, req, loc, resp, outbox, stored, deleted, http, db, calc>>

\* the client is done with the pages it read
PageEnd ==
    /\ pg.pc = "done"
    /\ pg' = PgIdle
    /\ UNCHANGED <<rows, clock, uuids, nreq, pc, req, loc, resp, outbox, stored, deleted, http, db, calc>>

\* a process calling store_notification and delete_notification, and a
\* client of another process that reads all notifications, a page that
\* holds the whole table at a time
NextStore ==
    \/ Receive("w1", PagingRequests)
    \/ StorePrepare("w1", 0..1)
    \/ StoreInsert("w1", "done")
    \/ Finish("w1")
    \/ \E id \in stored : Delete(id)
    \/ PageBegin({NoFilters}, {MaxReqs})
    \/ GetCount
    \/ GetList
    \/ PageEnd

SpecStore == Init /\ [][NextStore]_vars

\* a process calling store_notification and a client of another process
\* that reads the notifications in pages of one or two
NextPaging ==
    \/ Receive("w1", PagingRequests)
    \/ StorePrepare("w1", 0..1)
    \/ StoreInsert("w1", "done")
    \/ Finish("w1")
    \/ PageBegin({NoFilters}, PageSizes)
    \/ GetCount
    \/ GetList
    \/ PageEnd

SpecPaging == Init /\ [][NextPaging]_vars

\* Stores of requests that differ in type, source and priority, and GET
\* requests with every filter omitted, empty, or set to a value. The WHERE
\* clauses do not read stored_at: the clock stands still here.
FilterValues(vals) == {None, ""} \cup vals

AllFilters ==
    [notification_type : FilterValues(StoreTypes),
     source : FilterValues(Sources),
     priority : FilterValues(Priorities)]

NextFilter ==
    \/ Receive("w1", StoreRequests)
    \/ StorePrepare("w1", {0})
    \/ StoreInsert("w1", "done")
    \/ Finish("w1")
    \/ PageBegin(AllFilters, {MaxReqs})
    \/ GetCount
    \/ GetList
    \/ PageEnd

SpecFilter == Init /\ [][NextFilter]_vars

\* two processes that call store_notification at the same time, and
\* delete_notification: each process runs its own call in order, and the
\* calls interleave at the clock reads and at the database statements
NextConcurrent ==
    \/ \E p \in Procs :
        \/ Receive(p, PagingRequests)
        \/ StorePrepare(p, 0..1)
        \/ StoreInsert(p, "done")
        \/ Finish(p)
    \/ \E id \in stored : Delete(id)

SpecConcurrent == Init /\ [][NextConcurrent]_vars

----------------------------------------------------------------------------
(* Database operations, step by step *)

\* the row an INSERT issued through Database writes
DirectRow(n) ==
    NotificationRow(
        Uuid(n),
        NotificationRequest("unknown_x", "svc", PayloadExample, "normal", None,
                            None, NoneDict),
        Iso(clock), clock)

\* store_notification calls execute_update with its INSERT
StoreExecuteUpdate(p) ==
    /\ pc[p] = "insert"
    /\ db.op.pc = "idle"
    /\ db' = [db EXCEPT !.op =
           execute_update(<<NotificationRow(loc[p].notification_id, req[p],
                                            loc[p].timestamp, loc[p].stored_at)>>)]
    /\ pc' = [pc EXCEPT ![p] = "db"]
    /\ UNCHANGED <<rows, clock, uuids, nreq, req, loc, resp, outbox, stored,
                   deleted, pg, http, calc>>

\* a caller calls execute_query, execute_many, execute_raw or
\* execute_transaction, with INSERT statements of rows with new ids
DbCall(p) ==
    /\ pc[p] = "idle"
    /\ db.op.pc = "idle"
    /\ nreq < MaxReqs
    /\ \/ /\ db' = [db EXCEPT !.op = execute_query]
          /\ uuids' = uuids
       \/ \E k \in 1..MaxStmts :
            /\ db' = [db EXCEPT !.op =
                   execute_many([i \in 1..k |-> DirectRow(uuids + i)])]
            /\ uuids' = uuids + k
       \/ \E fetch \in BOOLEAN :
            /\ db' = [db EXCEPT !.op =
                   execute_raw(<<DirectRow(uuids + 1)>>, fetch)]
            /\ uuids' = IF fetch THEN uuids ELSE uuids + 1
       \/ \E k \in 0..MaxStmts :
            /\ db' = [db EXCEPT !.op =
                   execute_transaction([i \in 1..k |-> <<DirectRow(uuids + i)>>])]
            /\ uuids' = uuids + k
    /\ nreq' = nreq + 1
    /\ pc' = [pc EXCEPT ![p] = "call"]
    /\ UNCHANGED <<rows, clock, req, loc, resp, outbox, stored, deleted, pg,
                   http, calc>>

\* get_connection: getconn() returns a connection of the pool, or raises
\* (pool exhausted, server unreachable): connection stays None, nothing is
\* rolled back and nothing is put back
DbGetConn ==
    /\ db.op.pc = "getconn"
    /\ \E ok \in BOOLEAN :
        IF ok /\ db.used < MaxConn
        THEN db' = [db EXCEPT !.used = @ + 1, !.op.connection = TRUE,
                              !.op.got = @ + 1, !.op.pc = "cursor"]
        ELSE db' = [db EXCEPT !.op.outcome = "raise", !.op.pc = "return"]
    /\ UNCHANGED <<rows, clock, uuids, nreq, pc, req, loc, resp, outbox, stored,
                   deleted, pg, http, calc>>

\* cursor = connection.cursor()
DbCursor ==
    /\ db.op.pc = "cursor"
    /\ \E ok \in BOOLEAN :
        db' = [db EXCEPT !.op.pc =
                  IF ~ok THEN "rollback"
                  ELSE IF db.op.queries = <<>> THEN "commit"
                  ELSE "execute"]
    /\ UNCHANGED <<rows, clock, uuids, nreq, pc, req, loc, resp, outbox, stored,
                   deleted, pg, http, calc>>

\* DbExecute with a fault: the connection is in autocommit mode, every
\* statement is committed as it executes
DbExecuteAutocommit ==
    /\ db.op.pc = "execute"
    /\ \E ok \in BOOLEAN :
        IF ok
        THEN /\ db' = [db EXCEPT
                      !.op.i = @ + 1,
                      !.op.outcome =
                          IF db.op.i = Len(db.op.queries) /\ ~db.op.commit
                          THEN "return" ELSE @,
                      !.op.pc =
                          IF db.op.i < Len(db.op.queries) THEN "execute"
                          ELSE IF db.op.commit THEN "commit"
                          ELSE "putconn"]
             /\ rows' = rows \o db.op.queries[db.op.i]
        ELSE /\ db' = [db EXCEPT !.op.pc = "rollback"]
             /\ rows' = rows
    /\ UNCHANGED <<clock, uuids, nreq, pc, req, loc, resp, outbox, stored,
                   deleted, pg, http, calc>>

\* cursor.execute of the next statement: its rows are written in the open
\* transaction, or it raises. After the last statement the operation
\* commits, or, without commit, returns.
DbExecute ==
    /\ db.op.pc = "execute"
    /\ \E ok \in BOOLEAN :
        IF ok
        THEN db' = [db EXCEPT
                      !.op.pending = @ \o db.op.queries[db.op.i],
                      !.op.i = @ + 1,
                      !.op.outcome =
                          IF db.op.i = Len(db.op.queries) /\ ~db.op.commit
                          THEN "return" ELSE @,
                      !.op.pc =
                          IF db.op.i < Len(db.op.queries) THEN "execute"
                          ELSE IF db.op.commit THEN "commit"
                          ELSE "putconn"]
        ELSE db' = [db EXCEPT !.op.pc = "rollback"]
    /\ UNCHANGED <<rows, clock, uuids, nreq, pc, req, loc, resp, outbox, stored,
                   deleted, pg, http, calc>>

\* DbCommit with a fault: the rows are in the table also when commit raises
DbCommitKeepsFailed ==
    /\ db.op.pc = "commit"
    /\ \E ok \in BOOLEAN :
        /\ rows' = rows \o db.op.pending
        /\ db' = IF ok
                 THEN [db EXCEPT !.op.pending = <<>>, !.op.outcome = "return",
                                 !.op.pc = "putconn"]
                 ELSE [db EXCEPT !.op.pc = "rollback"]
        /\ pg' = pg
    /\ UNCHANGED <<clock, uuids, nreq, pc, req, loc, resp, outbox, stored,
                   deleted, http, calc>>

\* connection.commit(): the rows of the transaction are in the table, or
\* commit raises and the table is as before
DbCommit ==
    /\ db.op.pc = "commit"
    /\ \E ok \in BOOLEAN :
        IF ok
        THEN /\ rows' = rows \o db.op.pending
             /\ db' = [db EXCEPT !.op.pending = <<>>, !.op.outcome = "return",
                                 !.op.pc = "putconn"]
             /\ pg' = [pg EXCEPT !.inserted = (pg.pc # "idle")]
        ELSE /\ db' = [db EXCEPT !.op.pc = "rollback"]
             /\ UNCHANGED <<rows, pg>>
    /\ UNCHANGED <<clock, uuids, nreq, pc, req, loc, resp, outbox, stored,
                   deleted, http, calc>>

\* DbRollback with a fault: the error path returns without the finally
\* clause that puts the connection back
DbRollbackLeaks ==
    /\ db.op.pc = "rollback"
    /\ db' = [db EXCEPT !.op.pending = <<>>, !.op.outcome = "raise",
                        !.op.pc = "return"]
    /\ UNCHANGED <<rows, clock, uuids, nreq, pc, req, loc, resp, outbox, stored,
                   deleted, pg, http, calc>>

\* the except clauses: connection.rollback() discards the open
\* transaction and the exception is raised again
DbRollback ==
    /\ db.op.pc = "rollback"
    /\ db' = [db EXCEPT !.op.pending = <<>>, !.op.outcome = "raise",
                        !.op.pc = "putconn"]
    /\ UNCHANGED <<rows, clock, uuids, nreq, pc, req, loc, resp, outbox, stored,
                   deleted, pg, http, calc>>

\* the finally clause of get_connection: putconn(connection). The pool
\* rolls back a transaction that is still open.
DbPutConn ==
    /\ db.op.pc = "putconn"
    /\ db' = [db EXCEPT !.used = @ - 1, !.op.connection = FALSE,
                        !.op.put = @ + 1, !.op.pending = <<>>,
                        !.op.pc = "return"]
    /\ UNCHANGED <<rows, clock, uuids, nreq, pc, req, loc, resp, outbox, stored,
                   deleted, pg, http, calc>>

\* execute_update has returned to store_notification, which returns its
\* dict, or has raised, which store_notification turns into
\* HTTPException(500). after: where the caller continues.
StoreReturn(p, after) ==
    /\ pc[p] = "db"
    /\ db.op.pc = "return"
    /\ LET row == db.op.queries[1][1]
       IN IF db.op.outcome = "return"
          THEN /\ stored' = stored \cup {row.notification_id}
               /\ loc' = [loc EXCEPT ![p].storage_result = StorageResult(row)]
               /\ pc' = [pc EXCEPT ![p] = after]
               /\ resp' = resp
          ELSE /\ resp' = [resp EXCEPT ![p] =
                      ErrorResponse("500", "Error storing notification: database error")]
               /\ pc' = [pc EXCEPT ![p] = "done"]
               /\ UNCHANGED <<stored, loc>>
    /\ db' = [db EXCEPT !.op = NoOp]
    /\ UNCHANGED <<rows, clock, uuids, nreq, req, outbox, deleted, pg, http, calc>>

\* the operation has returned or raised to its caller
DbReturn(p) ==
    /\ pc[p] = "call"
    /\ db.op.pc = "return"
    /\ db' = [db EXCEPT !.op = NoOp]
    /\ pc' = [pc EXCEPT ![p] = "idle"]
    /\ UNCHANGED <<rows, clock, uuids, nreq, req, loc, resp, outbox, stored,
                   deleted, pg, http, calc>>

\* one process that calls store_notification and the operations of its
\* Database object, one call at a time. The table is what the list and
\* count queries of any process read.
NextDb ==
    \/ Receive("w1", PagingRequests)
    \/ StorePrepare("w1", {0})
    \/ StoreExecuteUpdate("w1")
    \/ StoreReturn("w1", "done")
    \/ Finish("w1")
    \/ DbCall("w1")
    \/ DbGetConn
    \/ DbCursor
    \/ DbExecute
    \/ DbCommit
    \/ DbRollback
    \/ DbPutConn
    \/ DbReturn("w1")

SpecDb == Init /\ [][NextDb]_vars

----------------------------------------------------------------------------
(* Calls of the pure functions *)

\* the handler of GET /notifications builds the pagination of its response
\* from the count and the page parameters
PaginationCalls ==
    {[fn |-> "pagination", total_count |-> t, page |-> 1, page_size |-> ps,
      done |-> FALSE, out |-> PaginationMeta(0, 1, 1)] :
        t \in 0..MaxTotal, ps \in 1..MaxPageSize}

Paginate ==
    /\ calc.fn = "pagination"
    /\ ~calc.done
    /\ calc' = [calc EXCEPT !.done = TRUE,
                            !.out = PaginationMeta(calc.total_count, calc.page,
                                                   calc.page_size)]
    /\ UNCHANGED <<rows, clock, uuids, nreq, pc, req, loc, resp, outbox, stored,
                   deleted, pg, http, db>>

InitPages == InitService /\ calc \in PaginationCalls

NextPages == Paginate

SpecPages == InitPages /\ [][NextPages]_vars

\* the pieces templates are made of: placeholders of the keys a, b and x,
\* plain text, and braces that belong to no placeholder
Tokens == {"{{a}}", "{{b}}", "{{x}}", "Hi ", "{{", "}}"}

RECURSIVE Concat(_)
Concat(ts) == IF ts = <<>> THEN "" ELSE Head(ts) \o Concat(Tail(ts))

Texts ==
    {"Hello {{name}}!"}
    \cup {Concat(ts) : ts \in UNION {[1..n -> Tokens] : n \in 1..MaxTokens}}

Values ==
    {PyNone, PyStr(""), PyInt(0), PyInt(7), PyStr("Bob"), PyStr("{{a}}"),
     PyStr("{{b}}")}

\* the keyword arguments: none, one of a and b, or both in either order
Kwargs ==
    {<<>>, <<Binding("name", PyStr("Bob"))>>}
    \cup {<<Binding(k, v)>> : k \in {"a", "b"}, v \in Values}
    \cup {<<Binding(k[1], v), Binding(k[2], w)>> :
             k \in {<<"a", "b">>, <<"b", "a">>}, v \in Values, w \in Values}

RenderCalls ==
    {[fn |-> "render_template", template_content |-> t, kwargs |-> kw,
      done |-> FALSE, out |-> ""] : t \in Texts, kw \in Kwargs}

Render ==
    /\ calc.fn = "render_template"
    /\ ~calc.done
    /\ calc' = [calc EXCEPT !.done = TRUE,
                            !.out = render_template(calc.template_content,
                                                    calc.kwargs)]
    /\ UNCHANGED <<rows, clock, uuids, nreq, pc, req, loc, resp, outbox, stored,
                   deleted, pg, http, db>>

InitRender == InitService /\ calc \in RenderCalls

NextRender == Render

SpecRender == InitRender /\ [][NextRender]_vars

\* the conditions build_section is called with: None, strings, numbers and
\* booleans, falsy and truthy ones of each
Conditions ==
    {PyNone, PyStr(""), PyStr("Y"), PyStr("0"), PyStr(" "), PyInt(0),
     PyInt(7), PyBool(FALSE), PyBool(TRUE)}

Fragments == {"", "<div>X</div>"} \cup Texts

SectionCalls ==
    {[fn |-> "build_section", condition |-> c, content |-> f,
      done |-> FALSE, out |-> "?"] : c \in Conditions, f \in Fragments}

Section ==
    /\ calc.fn = "build_section"
    /\ ~calc.done
    /\ calc' = [calc EXCEPT !.done = TRUE,
                            !.out = build_section(calc.condition, calc.content)]
    /\ UNCHANGED <<rows, clock, uuids, nreq, pc, req, loc, resp, outbox, stored,
                   deleted, pg, http, db>>

InitSection == InitService /\ calc \in SectionCalls

NextSection == Section

SpecSection == InitSection /\ [][NextSection]_vars

\* the optional fields of the two shapes that a section or the status
\* sentence is built from
PurchaseOptional ==
    {"chassis_id", "purchase_order_id", "lc_number", "supplier_name",
     "purchase_price", "currency", "port_of_loading",
     "expected_shipping_date", "notes", "contact_person", "old_status"}

ShippingOptional ==
    {"chassis_number", "shipping_order_id", "vessel_name", "voyage_number",
     "container_number", "bill_of_lading", "port_of_loading",
     "port_of_discharge", "estimated_arrival_date", "actual_arrival_date",
     "delivery_date", "tracking_url", "notes", "contact_person", "old_status"}

\* the validated object of an event in which exactly the optional fields of
\* S are given; each holds a text of its own
StatusObject(shape, S) ==
    [f \in DOMAIN shape |-> IF f \in S THEN f \o "-1" ELSE shape[f]]

\* every combination of given and omitted optional fields, and each
\* optional field given as the empty string among fields that are all
\* omitted or all given
StatusObjects(shape, optional) ==
    {StatusObject(shape, S) : S \in SUBSET optional}
    \cup {[StatusObject(shape, S) EXCEPT ![f] = ""] :
             S \in {{}, optional}, f \in optional}

RenderArgsCalls ==
    {[fn |-> "render_args", notification_type |-> "purchase_status",
      obj |-> o, done |-> FALSE, out |-> <<>>] :
        o \in StatusObjects(
                 PurchasingStatusEmail(
                     [email |-> "a@b.com", customer_name |-> "A",
                      make |-> "Toyota", model |-> "Corolla",
                      new_status |-> "LC Opened"]),
                 PurchaseOptional)}
    \cup
    {[fn |-> "render_args", notification_type |-> "shipping_status",
      obj |-> o, done |-> FALSE, out |-> <<>>] :
        o \in StatusObjects(
                 ShippingStatusEmail(
                     [to_email |-> "a@b.com", customer_name |-> "A",
                      car_make |-> "Toyota", car_model |-> "Corolla",
                      new_status |-> "In Transit"]),
                 ShippingOptional)}

\* a handler builds the status sentence and the sections of its body
BuildRenderArgs ==
    /\ calc.fn = "render_args"
    /\ ~calc.done
    /\ calc' = [calc EXCEPT !.done = TRUE,
                            !.out = RenderArgs(calc.notification_type, calc.obj)]
    /\ UNCHANGED <<rows, clock, uuids, nreq, pc, req, loc, resp, outbox, stored,
                   deleted, pg, http, db>>

InitBody == InitService /\ calc \in RenderArgsCalls

NextBody == BuildRenderArgs

SpecBody == InitBody /\ [][NextBody]_vars

\* one process serving POST /notifications, from the arrival of the HTTP
\* request on. No claim about the boundary reads stored_at: the clock
\* stands still here.
NextBoundary ==
    \/ Arrive("w1", HttpRequests)
    \/ Authenticate("w1")
    \/ Validate("w1")
    \/ StorePrepare("w1", {0})
    \/ StoreInsert("w1", "dispatch")
    \/ Dispatch("w1")
    \/ Respond("w1")
    \/ Finish("w1")

SpecBoundary == Init /\ [][NextBoundary]_vars

----------------------------------------------------------------------------
(* Claims about POST /notifications *)

StoreSucceeded(p) == loc[p].storage_result # NoneDict

Succeeded(p) == pc[p] = "done" /\ resp[p].status_code = "200"

HasDetail(p, k) == Succeeded(p) /\ k \in DOMAIN resp[p].details

MailsOf(p) == SelectSeq(outbox, LAMBDA m : m.rid = loc[p].rid)

\* C1: once the store step of a request has succeeded, the stored row stays
\* in the table and, whatever the dispatch step did, the request ends with
\* a response of status "success" whose details.storage is the store's
\* result.
C1_DispatchFailureKeepsSuccess ==
    \A p \in Procs :
        StoreSucceeded(p) =>
            /\ loc[p].notification_id \in RowIds(rows)
            /\ pc[p] = "done" =>
                /\ Succeeded(p)
                /\ resp[p].status = "success"
                /\ "storage" \in DOMAIN resp[p].details
                /\ resp[p].details.storage = loc[p].storage_result

\* a finished request whose mail send failed after a successful store
C1_Witness ==
    \E p \in Procs :
        /\ pc[p] = "done"
        /\ StoreSucceeded(p)
        /\ loc[p].email_error = "Error: 500: Failed to send email"
        /\ Len(MailsOf(p)) = 1

\* C2: the dispatch step and every mail send of a request happen only after
\* its store step has succeeded; a request whose store step failed ends with
\* an HTTP 500 error response, without a dispatch attempt and without a mail.
C2_DispatchOnlyAfterStore ==
    \A p \in Procs :
        /\ (loc[p].dispatched \/ Len(MailsOf(p)) > 0) =>
              /\ StoreSucceeded(p)
              /\ loc[p].notification_id \in stored
        /\ (pc[p] \in {"dispatch", "respond"}) => StoreSucceeded(p)
        /\ (pc[p] = "done" /\ ~StoreSucceeded(p)) =>
              /\ resp[p].status_code = "500"
              /\ ~loc[p].dispatched
              /\ Len(MailsOf(p)) = 0

\* a request that ended with the store's error
C2_Witness ==
    \E p \in Procs :
        /\ pc[p] = "done"
        /\ ~StoreSucceeded(p)
        /\ resp[p].status_code = "500"

\* C3: a success response carries details.storage and exactly one of
\* details.email and details.email_warning: email, equal to the dispatch
\* result, when dispatch returned one, and email_warning, a text naming the
\* error, when dispatch raised.
C3_ExactlyOneEmailOutcome ==
    \A p \in Procs :
        Succeeded(p) =>
            /\ "storage" \in DOMAIN resp[p].details
            /\ HasDetail(p, "email") # HasDetail(p, "email_warning")
            /\ HasDetail(p, "email") <=> loc[p].email_result # NoneDict
            /\ HasDetail(p, "email_warning") <=> loc[p].email_error # None
            /\ HasDetail(p, "email") =>
                  resp[p].details.email = loc[p].email_result
            /\ HasDetail(p, "email_warning") =>
                  resp[p].details.email_warning =
                      "Email not sent: " \o loc[p].email_error

\* a success response with a warning and no email
C3_Witness ==
    \E p \in Procs :
        /\ HasDetail(p, "email_warning")
        /\ ~HasDetail(p, "email")
        /\ loc[p].dispatched

\* C4: a request of a type without a handler, once stored, ends with a
\* success response that carries details.email_warning.
C4_UnknownTypeWarns ==
    \A p \in Procs :
        (pc[p] = "done" /\ StoreSucceeded(p)
            /\ req[p].notification_type \notin KnownTypes) =>
                /\ HasDetail(p, "email_warning")
                /\ loc[p].notification_id \in RowIds(rows)
                /\ Len(MailsOf(p)) = 0

\* a finished request of type unknown_x with the unsupported-type warning
C4_Witness ==
    \E p \in Procs :
        /\ req[p].notification_type = "unknown_x"
        /\ HasDetail(p, "email_warning")
        /\ StartsWith(resp[p].details.email_warning,
                      "Email not sent: Unsupported notification type: unknown_x")

\* the payload lacks a field the type's shape requires
LacksRequired(r) ==
    \/ r.notification_type = "purchase_status"
        /\ \E f \in PurchasingRequired : f \notin DOMAIN r.payload
    \/ r.notification_type = "shipping_status"
        /\ \E f \in ShippingRequired : f \notin DOMAIN r.payload

C6_EndToEndPurchase ==
    \A p \in Procs :
        (pc[p] = "done" /\ StoreSucceeded(p)
            /\ req[p].notification_type = "purchase_status"
            /\ req[p].payload = PayloadExample
            /\ loc[p].tmpl /\ loc[p].smtp) =>
                /\ HasDetail(p, "email")
                /\ resp[p].details.email.details.car = "Toyota Corolla"

----------------------------------------------------------------------------
(* Claims about the store and GET /notifications *)

RECURSIVE Flatten(_)
Flatten(pages) ==
    IF pages = <<>> THEN <<>> ELSE Head(pages) \o Flatten(Tail(pages))

\* the rows the client has received, in the order received
PagedRows == Flatten(pg.pages)

PagedIds == RowIds(PagedRows)

Unwritten == ~pg.inserted /\ ~pg.removed

FilterKeys == {"notification_type", "source", "priority"}

\* the row matches every filter that was supplied (is not None)
MatchesSupplied(r, f) == \A k \in FilterKeys : f[k] # None => r[k] = f[k]

\* the row matches every filter supplied with a non-empty value
MatchesNonEmpty(r, f) ==
    \A k \in FilterKeys : (f[k] # None /\ f[k] # "") => r[k] = f[k]

\* C8 as claimed: whatever filters are supplied, every returned row is a
\* stored event that matches all of them, and the count is the number of
\* stored events that match all of them.
C8_FiltersAsClaimed ==
    /\ \A i \in 1..Len(PagedRows) :
          /\ PagedRows[i].notification_id \in stored
          /\ MatchesSupplied(PagedRows[i], pg.filters)
    /\ (pg.pc = "list" /\ Unwritten) =>
          pg.total = Cardinality({i \in 1..Len(rows) :
                                     MatchesSupplied(rows[i], pg.filters)})

\* C8 amended: every returned row is a stored event that matches all the
\* filters supplied with a non-empty value, the count is the number of
\* stored events that match all of them, and a full read returns as many
\* rows as were counted; a filter supplied as the empty string selects
\* like an omitted one.
C8_FiltersNonEmpty ==
    /\ \A i \in 1..Len(PagedRows) :
          /\ PagedRows[i].notification_id \in stored
          /\ MatchesNonEmpty(PagedRows[i], pg.filters)
    /\ (pg.pc = "list" /\ Unwritten) =>
          pg.total = Cardinality({i \in 1..Len(rows) :
                                     MatchesNonEmpty(rows[i], pg.filters)})
    /\ (pg.pc = "done" /\ Unwritten) => Len(PagedRows) = pg.total

\* a read with two filters supplied that returned one of two stored rows,
\* the other row matching one of the two filters only
C8_Witness ==
    /\ pg.pc = "done"
    /\ Unwritten
    /\ pg.filters.notification_type = "purchase_status"
    /\ pg.filters.source = "web"
    /\ pg.filters.priority = None
    /\ \E i \in 1..Len(rows) :
          rows[i].notification_type = "purchase_status" /\ rows[i].source = "svc"
    /\ Len(rows) = 2
    /\ Len(PagedRows) = 1
    /\ pg.total = 1

\* C9: when all pages have been read and nothing was written meanwhile,
\* the page lengths sum to the number of stored events, no notification is
\* on two pages, and the rows read are in descending stored_at order.
C9_PagesPartition ==
    (pg.pc = "done" /\ Unwritten) =>
        /\ Len(PagedRows) = Len(rows)
        /\ \A i, j \in 1..Len(PagedRows) :
              i < j => PagedRows[i].notification_id # PagedRows[j].notification_id
        /\ \A i, j \in 1..Len(PagedRows) :
              i < j => PagedRows[i].stored_at >= PagedRows[j].stored_at

DistinctStoredAt ==
    \A i, j \in 1..Len(rows) : i # j => rows[i].stored_at # rows[j].stored_at

\* C10: when all pages have been read, also with inserts in between, no
\* notification was returned twice and every notification stored before the
\* read began was returned. Stated for tables without two equal stored_at.
C10_StableUnderInserts ==
    (pg.pc = "done" /\ DistinctStoredAt) =>
        /\ \A i, j \in 1..Len(PagedRows) :
              i < j => PagedRows[i].notification_id # PagedRows[j].notification_id
        /\ \A id \in pg.before : id \in PagedIds

----------------------------------------------------------------------------
(* Claims about stored_at and notification_id *)

\* C11: the rows of the table, in the order their inserts were committed,
\* have strictly increasing stored_at; in particular no two rows share a
\* stored_at value.
C11_StoredAtMonotonic ==
    \A i, j \in 1..Len(rows) : i < j => rows[i].stored_at < rows[j].stored_at

\* C12: no two rows of the table have the same notification_id, no id of
\* a deleted notification is in the table again, every successful store
\* added an id of its own, and the id a call is about to insert has never
\* been stored, also not by a call running at the same time.
C12_FreshIds ==
    /\ \A i, j \in 1..Len(rows) :
          i # j => rows[i].notification_id # rows[j].notification_id
    /\ RowIds(rows) \cap deleted = {}
    /\ Len(rows) + Cardinality(deleted) = Cardinality(stored)
    /\ \A p \in Procs :
          pc[p] = "insert" =>
              /\ loc[p].notification_id \notin stored \cup deleted
              /\ \A q \in Procs \ {p} :
                    pc[q] = "insert" =>
                        loc[q].notification_id # loc[p].notification_id

\* a notification has been stored and deleted, and a later call has
\* generated its id and is about to insert
C12_Witness ==
    /\ deleted # {}
    /\ rows = <<>>
    /\ \E p \in Procs : pc[p] = "insert" /\ loc[p].notification_id = Uuid(2)

----------------------------------------------------------------------------
(* Claims about the request boundary *)

ValidPriorities == {"normal", "high", "urgent"}

\* accept_notification has been entered for the request of p
Entered(p) == pc[p] \in {"prepare", "insert", "dispatch", "respond"}

\* C13: every row of the table has a priority among normal, high and
\* urgent; a request whose body carries a priority is handed to
\* store_notification only if that priority is one of the three, and a
\* request whose body carries none is stored with priority normal.
C13_PriorityValid ==
    /\ \A i \in 1..Len(rows) : rows[i].priority \in ValidPriorities
    /\ \A p \in Procs :
          Entered(p) =>
              IF "priority" \in DOMAIN http[p].body
              THEN http[p].body.priority \in ValidPriorities
              ELSE req[p].priority = "normal"

\* verify_token has run for the request of p
AuthDone(p) == pc[p] \notin {"idle", "auth"}

TokenAccepted(p) == AuthDone(p) /\ loc[p].token_data # NoneDict

TokenRejected(p) == AuthDone(p) /\ loc[p].token_data = NoneDict

\* the endpoint answers 200 with a JSON body whose active member is true
ActiveTrue(i) ==
    i.kind = "response" /\ i.status_code = "200" /\ i.json /\ i.active = "True"

\* Authorization headers of the form Bearer <token>
BearerHeaders == {"Bearer tok", "bearer tok"}

\* C15: a request is accepted, with the introspection data as token data,
\* exactly when its header has the form Bearer <token> and the endpoint
\* answers 200 with active true; every other request is answered with 401,
\* or with 503 when the endpoint could not be reached, and with no other
\* status.
C15_TokenDecision ==
    \A p \in Procs :
        /\ TokenAccepted(p) =>
              /\ http[p].authorization \in BearerHeaders
              /\ ActiveTrue(http[p].introspection)
              /\ loc[p].token_data = [active |-> "True"]
        /\ (AuthDone(p) /\ http[p].authorization \in BearerHeaders
                /\ ActiveTrue(http[p].introspection)) => TokenAccepted(p)
        /\ TokenRejected(p) =>
              /\ pc[p] = "done"
              /\ resp[p].status_code \in {"401", "503"}
              /\ resp[p].status_code = "503" <=>
                    /\ http[p].authorization \in BearerHeaders
                    /\ http[p].introspection.kind = "RequestError"

\* the body lacks a required member or breaks a limit of the request shape
DefectiveBody(b) ==
    \/ \E k \in {"notification_type", "source"} :
          \/ k \notin DOMAIN b
          \/ b[k] = ""
          \/ Len(b[k]) > 100
    \/ "payload" \notin DOMAIN b
    \/ "priority" \in DOMAIN b /\ b.priority \notin ValidPriorities \cup {None}
    \/ "reference_id" \in DOMAIN b /\ Len(b.reference_id) > 200

\* the request of p was answered at the boundary
BoundaryRejected(p) ==
    /\ pc[p] = "done"
    /\ loc[p].token_data = NoneDict \/ resp[p].status_code = "422"

\* C16: a request whose token verification fails or whose body is
\* defective never enters accept_notification; the step that rejects a
\* request changes neither the table nor the mails sent and generates no
\* id, and a rejected request has no store result, no dispatch and no mail.
C16_RejectedBeforeSideEffects ==
    [][\A p \in Procs :
          /\ (pc[p] \in {"auth", "validate"} /\ pc'[p] = "done") =>
                /\ rows' = rows /\ stored' = stored /\ outbox' = outbox
                /\ uuids' = uuids
                /\ resp'[p].status_code \in {"401", "503", "500", "422"}
          /\ (pc[p] # "prepare" /\ pc'[p] = "prepare") =>
                /\ loc[p].token_data # NoneDict
                /\ ~DefectiveBody(http[p].body)
          /\ (pc[p] \in {"auth", "validate"} /\ DefectiveBody(http[p].body)) =>
                pc'[p] \in {"auth", "validate", "done"}
          /\ BoundaryRejected(p) =>
                /\ loc[p].notification_id = None
                /\ loc[p].storage_result = NoneDict
                /\ ~loc[p].dispatched
                /\ Len(MailsOf(p)) = 0
                /\ pc'[p] \in {"done", "idle"}
      ]_vars

\* a request with a reference_id of 201 characters was answered with 422
\* while the table holds the row of an earlier request, whose mail was sent
C16_Witness ==
    \E p \in Procs :
        /\ pc[p] = "done"
        /\ resp[p].status_code = "422"
        /\ "reference_id" \in DOMAIN http[p].body
        /\ Len(rows) = 1
        /\ Len(outbox) = 1

----------------------------------------------------------------------------
(* Claims about Database *)

\* C14: the table changes only when a commit succeeds, and then by all the
\* rows of the transaction; a store_notification call whose execute_update
\* raised, at getconn, at the statement or at the commit, ends with the
\* error response 500 "Error storing notification", its row is not in the
\* table and its id is not among the stored ids; a call whose
\* execute_update returned has its row in the table.
C14_FailedInsertLeavesTable ==
    [][/\ rows' # rows =>
             /\ db.op.pc = "commit"
             /\ db'.op.outcome = "return"
             /\ rows' = rows \o db.op.pending
       /\ \A p \in Procs :
             /\ (pc[p] = "db" /\ db.op.outcome # "return") =>
                   loc[p].notification_id \notin RowIds(rows)
             /\ (pc[p] = "db" /\ pc'[p] # "db" /\ db.op.outcome = "raise") =>
                   /\ pc'[p] = "done"
                   /\ resp'[p].status_code = "500"
                   /\ StartsWith(resp'[p].detail, "Error storing notification")
                   /\ rows' = rows /\ stored' = stored
                   /\ loc[p].notification_id \notin RowIds(rows') \cup stored'
                   /\ loc'[p].storage_result = NoneDict
             /\ (pc[p] = "db" /\ pc'[p] # "db" /\ db.op.outcome = "return") =>
                   /\ loc[p].notification_id \in RowIds(rows')
                   /\ loc[p].notification_id \in stored'
      ]_vars

\* a store_notification call ended with the storage error while the table
\* holds the row of an earlier call
C14_Witness ==
    \E p \in Procs :
        /\ pc[p] = "done"
        /\ loc[p].notification_id # None
        /\ resp[p].status_code = "500"
        /\ Len(rows) = 1
        /\ loc[p].notification_id \notin RowIds(rows)

\* C18: an operation gets at most one connection and puts back exactly
\* the one it got: a connection is checked out from the successful getconn
\* until putconn, the number of connections checked out never exceeds
\* max_conn and is zero when no operation is running or the operation has
\* returned or raised, and an operation whose getconn failed has put
\* nothing back.
C18_ConnectionsReturned ==
    /\ db.used <= MaxConn
    /\ db.used = db.op.got - db.op.put
    /\ db.used = IF db.op.connection THEN 1 ELSE 0
    /\ db.op.put <= db.op.got /\ db.op.got <= 1
    /\ db.op.pc \in {"idle", "getconn", "return"} =>
          db.used = 0 /\ db.op.put = db.op.got
    /\ db.op.pc \in {"cursor", "execute", "commit", "rollback", "putconn"} =>
          db.op.connection /\ db.op.got = 1 /\ db.op.put = 0
    /\ (db.op.pc = "return" /\ db.op.got = 0) =>
          db.op.outcome = "raise" /\ db.op.put = 0
    /\ (db.op.pc = "return" /\ db.op.outcome = "return") => db.op.put = 1

\* an operation that got a connection has raised and has put it back
C18_Witness ==
    /\ db.op.pc = "return"
    /\ db.op.outcome = "raise"
    /\ db.op.got = 1
    /\ db.op.put = 1
    /\ db.used = 0

\* the ids of the rows the statements of the operation write
WrittenIds == RowIds(Written(db.op.queries))

\* C19: at every moment either none or all of the rows the statements of
\* an execute_transaction call write are in the table; none before the
\* commit and none when the call raises, also when statements had executed
\* before the failing one; all when the call returns, after every
\* statement has executed.
C19_TransactionAllOrNothing ==
    db.op.fn = "execute_transaction" =>
        /\ WrittenIds \cap RowIds(rows) \in {{}, WrittenIds}
        /\ db.op.pc \in {"getconn", "cursor", "execute", "commit", "rollback"} =>
              WrittenIds \cap RowIds(rows) = {}
        /\ db.op.outcome = "raise" => WrittenIds \cap RowIds(rows) = {}
        /\ db.op.outcome = "return" =>
              /\ WrittenIds \subseteq RowIds(rows)
              /\ db.op.i = Len(db.op.queries) + 1

\* a transaction of two statements has raised after its first statement
\* had executed
C19_Witness ==
    /\ db.op.fn = "execute_transaction"
    /\ db.op.pc = "return"
    /\ db.op.outcome = "raise"
    /\ Len(db.op.queries) = 2
    /\ db.op.i = 2


\* C17: in the response of GET /notifications, for every total >= 0 and
\* every page_size in 1..100, total_pages is 0 when total is 0 and otherwise
\* the least number of pages of page_size items that hold total items; total
\* and page_size are reported as they were given.
C17_TotalPagesIsCeiling ==
    (calc.fn = "pagination" /\ calc.done) =>
        /\ calc.out.total = calc.total_count
        /\ calc.out.page_size = calc.page_size
        /\ IF calc.total_count = 0
           THEN calc.out.total_pages = 0
           ELSE /\ calc.out.total_pages * calc.page_size >= calc.total_count
                /\ (calc.out.total_pages - 1) * calc.page_size < calc.total_count

\* a count that is not a multiple of the page size and fills more than one
\* page has been paginated
C17_Witness ==
    /\ calc.fn = "pagination"
    /\ calc.done
    /\ calc.total_count > calc.page_size
    /\ calc.total_count % calc.page_size # 0
    /\ calc.page_size = MaxPageSize

\* what C20 says the output is: one pass over the text, in which every
\* placeholder of a bound key gives way to the text of its value and
\* everything else is copied
RECURSIVE Substituted(_, _)
Substituted(text, bindings) ==
    IF text = "" THEN ""
    ELSE LET at == {i \in 1..Len(bindings) :
                      LET ph == "{{" \o bindings[i].key \o "}}"
                      IN  Len(text) >= Len(ph) /\ SubSeq(text, 1, Len(ph)) = ph}
         IN  IF at = {}
             THEN SubSeq(text, 1, 1) \o Substituted(SubSeq(text, 2, Len(text)), bindings)
             ELSE LET b == bindings[CHOOSE i \in at : TRUE]
                      ph == "{{" \o b.key \o "}}"
                  IN  (IF PyTruthy(b.value) THEN b.value.str ELSE "")
                      \o Substituted(SubSeq(text, Len(ph) + 1, Len(text)), bindings)

\* C20: render_template(text, bindings) replaces every occurrence of {{key}}
\* in text, for every bound key, by the string form of the value, or by the
\* empty string when the value is falsy, and leaves every placeholder of an
\* unbound key unchanged.
C20_RenderSubstitutes ==
    (calc.fn = "render_template" /\ calc.done) =>
        calc.out = Substituted(calc.template_content, calc.kwargs)

----------------------------------------------------------------------------
(* Claims about the template renderer and the e-mail handlers *)

\* the conditions that count as absent: null, the empty string, zero, false
Falsy == {PyNone, PyStr(""), PyInt(0), PyBool(FALSE)}

\* C21: build_section(condition, fragment) returns fragment unchanged when
\* condition is truthy (non-null, non-empty string, non-zero) and the empty
\* string otherwise, for every condition and every fragment.
C21_SectionToggles ==
    (calc.fn = "build_section" /\ calc.done) =>
        /\ calc.condition \notin Falsy => calc.out = calc.content
        /\ calc.condition \in Falsy => calc.out = ""

\* section("Y", "<div>X</div>") has returned the fragment
C21_Witness ==
    /\ calc.fn = "build_section"
    /\ calc.done
    /\ calc.condition = PyStr("Y")
    /\ calc.content = "<div>X</div>"
    /\ calc.out = "<div>X</div>"

\* the send_email invocations of the handler call of process p
SendsOf(p) == IF loc[p].dispatched THEN MailsOf(p) ELSE <<>>

\* C22: an e-mail handler invoked on a validated status-update object
\* returns a success payload (car label, new_status, order id) when
\* send_email reported success, and signals a failure when send_email
\* reported failure: no failure after a successful send, no success after
\* a failed one.
C22_HandlerReportsSend ==
    \A p \in Procs : \A i \in 1..Len(SendsOf(p)) :
        IF SendsOf(p)[i].ok
        THEN /\ TruthyDict(loc[p].email_result)
             /\ loc[p].email_result.status = "success"
             /\ {"car", "new_status"} \subseteq DOMAIN loc[p].email_result.details
        ELSE /\ loc[p].email_result = NoneDict
             /\ Truthy(loc[p].email_error)

\* the fields C23 names as required: the recipient, make and model, and
\* new_status, under the names of each shape
ClaimedRequired(t) ==
    IF t = "purchase_status"
    THEN {"email", "make", "model", "new_status"}
    ELSE {"to_email", "car_make", "car_model", "new_status"}

\* C23: a handler renders and sends only when the recipient e-mail, make,
\* model and new_status of its shape are present; when one of them is
\* missing the attempt ends with an invalid-payload failure and send_email
\* is never invoked.
C23_RequiredBeforeSend ==
    \A p \in Procs :
        (/\ loc[p].dispatched
         /\ req[p].notification_type \in KnownTypes
         /\ \E f \in ClaimedRequired(req[p].notification_type) :
               Get(req[p].payload, f) = None) =>
            /\ Len(MailsOf(p)) = 0
            /\ loc[p].email_result = NoneDict
            /\ loc[p].email_error = InvalidPayload(req[p].notification_type).detail

\* C24: dispatch is a single synchronous attempt. Within one request
\* send_email is invoked at most once; a send that failed is reported as a
\* failure of that request and is neither retried nor queued: no later
\* invocation belongs to the same request.
C24_SingleAttempt ==
    /\ \A i, j \in 1..Len(outbox) : outbox[i].rid = outbox[j].rid => i = j
    /\ \A p \in Procs :
          /\ Len(MailsOf(p)) > 0 => loc[p].dispatched
          /\ \A i \in 1..Len(SendsOf(p)) :
                ~SendsOf(p)[i].ok =>
                    /\ loc[p].email_result = NoneDict
                    /\ Contains(loc[p].email_error, "Failed to send email")

\* a second request is being dispatched after the send of the first one
\* failed
C24_Witness ==
    /\ Len(outbox) = 1
    /\ ~outbox[1].ok
    /\ \E p \in Procs : pc[p] = "respond" /\ loc[p].rid = 2 /\ Len(MailsOf(p)) = 0

\* the display label of C25: make, a blank, model, and the year in
\* parentheses when there is one
Label(make, model, year) ==
    IF year = None THEN make \o " " \o model
    ELSE make \o " " \o model \o " (" \o year \o ")"

\* what C25 expects send_email to be invoked with for a validated event
ExpectedMail(r) ==
    IF r.notification_type = "purchase_status"
    THEN [to_email |-> Get(r.payload, "email"),
          subject |-> "Purchase Update: " \o r.payload.new_status \o " - "
                      \o Label(r.payload.make, r.payload.model,
                               Get(r.payload, "year"))]
    ELSE [to_email |-> Get(r.payload, "to_email"),
          subject |-> "Shipping Update: " \o r.payload.new_status \o " - "
                      \o Label(r.payload.car_make, r.payload.car_model,
                               Get(r.payload, "car_year"))]

\* the payload of r converts into the shape of its type
Validated(r) ==
    \/ r.notification_type = "purchase_status" /\ PurchasingErrors(r.payload) = {}
    \/ r.notification_type = "shipping_status" /\ ShippingErrors(r.payload) = {}

\* C25: for every status-update object a handler processes (its template
\* being there), the mail capability is invoked with the object's recipient
\* and the subject "<Type> Update: <new_status> - <label>", where the label
\* is make + " " + model, followed by " (" + year + ")" exactly when a year
\* is present.
C25_LabelAndSubject ==
    \A p \in Procs :
        (loc[p].dispatched /\ loc[p].tmpl /\ Validated(req[p])) =>
            /\ Len(MailsOf(p)) = 1
            /\ MailsOf(p)[1].to_email = ExpectedMail(req[p]).to_email
            /\ MailsOf(p)[1].subject = ExpectedMail(req[p]).subject

\* the sections C26 is about: the key a section is bound to, the field that
\* toggles it, and the fields its fragment shows
SectionOf(key, field) == [key |-> key, field |-> field, shows |-> {field}]

Sections(t) ==
    IF t = "purchase_status"
    THEN {SectionOf("chassis_number_section", "chassis_id"),
          SectionOf("purchase_order_section", "purchase_order_id"),
          SectionOf("lc_number_section", "lc_number"),
          SectionOf("supplier_section", "supplier_name"),
          [key |-> "price_section", field |-> "purchase_price",
           shows |-> {"purchase_price", "currency"}],
          SectionOf("port_loading_section", "port_of_loading"),
          SectionOf("shipping_date_section", "expected_shipping_date"),
          SectionOf("notes_section", "notes"),
          SectionOf("contact_section", "contact_person")}
    ELSE {SectionOf("chassis_number_section", "chassis_number"),
          SectionOf("shipping_order_section", "shipping_order_id"),
          SectionOf("vessel_section", "vessel_name"),
          SectionOf("voyage_section", "voyage_number"),
          SectionOf("container_section", "container_number"),
          SectionOf("bl_section", "bill_of_lading"),
          SectionOf("port_loading_section", "port_of_loading"),
          SectionOf("port_discharge_section", "port_of_discharge"),
          SectionOf("eta_section", "estimated_arrival_date"),
          SectionOf("ata_section", "actual_arrival_date"),
          SectionOf("delivery_date_section", "delivery_date"),
          SectionOf("tracking_section", "tracking_url"),
          SectionOf("notes_section", "notes"),
          SectionOf("contact_section", "contact_person")}

OptionalOf(t) ==
    IF t = "purchase_status" THEN PurchaseOptional ELSE ShippingOptional

\* the text bound to a key
Bound(kwargs, key) ==
    kwargs[CHOOSE i \in 1..Len(kwargs) : kwargs[i].key = key].value.str

\* the object with every optional field outside keep omitted
Alone(t, obj, keep) ==
    [f \in DOMAIN obj |-> IF f \in OptionalOf(t) \ keep THEN None ELSE obj[f]]

Absent(v) == v = None \/ v = ""

\* C26: each optional field toggles its own section: the section bound for
\* field f is its fragment when f is present and non-empty, the same
\* fragment whatever the other optional fields are, and the empty string
\* otherwise; the status sentence is the transition form ("updated from
\* <old> to <new>") exactly when there is an old status, and the
\* fresh-state form otherwise.
C26_SectionsIndependent ==
    (calc.fn = "render_args" /\ calc.done) =>
        LET t == calc.notification_type
            obj == calc.obj
            sentence == Bound(calc.out, "status_message")
        IN /\ \A e \in Sections(t) :
                IF Absent(obj[e.field])
                THEN Bound(calc.out, e.key) = ""
                ELSE /\ Contains(Bound(calc.out, e.key), obj[e.field])
                     /\ Bound(calc.out, e.key)
                          = Bound(RenderArgs(t, Alone(t, obj, e.shows)), e.key)
           /\ IF Absent(obj.old_status)
              THEN /\ Contains(sentence,
                               "status is now: <strong>" \o obj.new_status)
                   /\ ~Contains(sentence, "updated from")
              ELSE Contains(sentence,
                            "updated from <strong>" \o obj.old_status
                            \o "</strong> to <strong>" \o obj.new_status)

\* the sections of a purchase event with a price but no currency, with
\* notes and with an old status have been built
C26_Witness ==
    /\ calc.fn = "render_args"
    /\ calc.done
    /\ calc.notification_type = "purchase_status"
    /\ calc.obj.purchase_price = "purchase_price-1"
    /\ calc.obj.currency = None
    /\ calc.obj.notes = "notes-1"
    /\ calc.obj.chassis_id = None
    /\ calc.obj.old_status = "old_status-1"
    /\ Bound(calc.out, "price_section") # ""
    /\ Bound(calc.out, "chassis_number_section") = ""

----------------------------------------------------------------------------
(* Claims about the stored row *)

\* the row process p has stored in its current call
RowOf(p) ==
    rows[CHOOSE i \in 1..Len(rows) :
             rows[i].notification_id = loc[p].notification_id]

\* C27: store_notification persists the caller's timestamp unchanged when
\* the request carries a non-empty one, and the server's time when it
\* carries none; stored_at is always the server's time of the call,
\* whatever the caller supplied, and is no earlier than a timestamp the
\* server generated in the same call.
C27_TimestampAndStoredAt ==
    \A p \in Procs :
        StoreSucceeded(p) =>
            /\ RowOf(p).stored_at \in 0..clock
            /\ IF req[p].timestamp \notin {None, ""}
               THEN RowOf(p).timestamp = req[p].timestamp
               ELSE \E t \in 0..RowOf(p).stored_at : RowOf(p).timestamp = Iso(t)

\* a row with the caller's timestamp has been stored, and now one whose
\* timestamp the server took before the clock advanced to its stored_at
C27_Witness ==
    /\ Len(rows) = 2
    /\ rows[1].timestamp = CallerTime
    /\ rows[2].timestamp = Iso(0)
    /\ rows[2].stored_at = 1
    /\ \E p \in Procs : StoreSucceeded(p) /\ req[p].timestamp = ""

----------------------------------------------------------------------------
(* Claims about the order of the bindings *)

RECURSIVE Reverse(_)
Reverse(seq) ==
    IF seq = <<>> THEN <<>> ELSE Append(Reverse(Tail(seq)), Head(seq))

\* the value bound to key i holds the placeholder of another bound key, and
\* the template holds the placeholder of key i
Nested(text, kwargs, i, j) ==
    /\ i # j
    /\ Contains(text, "{{" \o kwargs[i].key \o "}}")
    /\ Contains(kwargs[i].value.str, "{{" \o kwargs[j].key \o "}}")

\* C28: the result of render_template does not depend on the order of the
\* bindings, and text inserted as the value of a binding is never itself
\* treated as a placeholder: when the value bound to a holds {{b}} and b is
\* bound too, the output holds {{b}} verbatim.
C28_OrderAndNoRescan ==
    (calc.fn = "render_template" /\ calc.done) =>
        /\ calc.out = render_template(calc.template_content, Reverse(calc.kwargs))
        /\ \A i, j \in 1..Len(calc.kwargs) :
              Nested(calc.template_content, calc.kwargs, i, j) =>
                  Contains(calc.out, "{{" \o calc.kwargs[j].key \o "}}")

----------------------------------------------------------------------------
(* Claims about reading back what was stored *)

RoundTripFields ==
    {"notification_type", "source", "payload", "priority", "reference_id",
     "metadata"}

\* the values of a request body with the defaults applied: priority normal,
\* reference_id and metadata null
Requested(body) ==
    [notification_type |-> body.notification_type,
     source |-> body.source,
     payload |-> body.payload,
     priority |-> IF Get(body, "priority") = None THEN "normal"
                  ELSE body.priority,
     reference_id |-> Get(body, "reference_id"),
     metadata |-> IF "metadata" \in DOMAIN body THEN body.metadata ELSE NoneDict]

SameFields(row, values) == \A f \in RoundTripFields : row[f] = values[f]

\* C29: the row that get_notification_by_id or get_notifications returns
\* for an accepted notification has notification_type, source, payload,
\* priority, reference_id and metadata equal to the values of the request
\* with the defaults applied, also for an empty metadata mapping and for a
\* priority given as null.
C29_RoundTrip ==
    \A p \in Procs :
        StoreSucceeded(p) =>
            /\ (/\ calc.fn = "get_notification_by_id"
                /\ calc.id = loc[p].notification_id
                /\ calc.out # NoneDict) =>
                   SameFields(calc.out, Requested(http[p].body))
            /\ calc.fn = "get_notifications" =>
                   \A i \in 1..Len(calc.out) :
                       calc.out[i].notification_id = loc[p].notification_id =>
                           SameFields(calc.out[i], Requested(http[p].body))

\* the number of notifications that page n of the given size holds when
\* there are total of them
PageLength(total, n, page_size) ==
    IF total - (n - 1) * page_size <= 0 THEN 0
    ELSE Min(page_size, total - (n - 1) * page_size)

\* a response of GET /notifications has just been returned: its page is the
\* last of pg.pages and its total is pg.total
Responded == pg.pc \in {"count", "done"} /\ pg.pages # <<>>

\* C30: in every GET /notifications response, pagination.total and the
\* returned page describe the same state of the store, also when other
\* requests insert between the count query and the list query: the number
\* of returned notifications is min(page_size, max(0, total - (page-1) *
\* page_size)).
C30_TotalMatchesPage ==
    Responded =>
        Len(pg.pages[Len(pg.pages)])
            = PageLength(pg.total, Len(pg.pages), pg.page_size)

====
